---- MODULE Spec2Model ----
(***************************************************************************)
(* Story-timeline-builder: the background book import, the LLM call        *)
(* helper, the relationship-synthesis pipeline with its two-tier cache,    *)
(* the character pass, the manuscript chunking, the deep scan and the      *)
(* enrichment of characters of timeline/views.py, scan_text of             *)
(* timeline/utils/ai_context.py, and the word count and the relative dates *)
(* of the events, the lookups of the views by id for two users and the    *)
(* activity log of timeline/signals.py, over the tables of                 *)
(* timeline/models.py.                                                     *)
(*                                                                         *)
(* Conventions.  A database table is a collection of rows; a uniqueness    *)
(* constraint is the guard of the insert that Django turns into an         *)
(* IntegrityError.  Model.save() of an instance that has a primary key     *)
(* writes every column from the in-memory instance and inserts the row     *)
(* again when it has been deleted.  Text is a sequence of one-character    *)
(* strings; sha256 is taken to be injective and is modelled by the         *)
(* wrapper Sha256.                                                         *)
(***************************************************************************)
EXTENDS Integers, Sequences, FiniteSets, TLC

\* ------------------------------------------------------------------------
\* Bounds of the model
\* ------------------------------------------------------------------------
MaxChunks == 3
MaxRequests == 1
MaxShared == 4
MaxRelRequests == 3
MaxAiCharacters == 2

\* ------------------------------------------------------------------------
\* State
\* ------------------------------------------------------------------------
VARIABLES
    \* the import and the requests on its book
    book,       \* the Book row created by book_import
    imp,        \* the import thread: its position and its locals
    chapters,   \* Chapter rows, counted per (book, chapter_number)
    events,     \* Event rows, counted per (book, chapter_number)
    bulk,       \* a chapter_bulk_upload request in progress
    requests,   \* how many requests on chapters and books were served
    upload,     \* the book_import request: its position, its reply, the threads it started
    \* _call_ai_json
    keys,       \* settings.DEEPSEEK_API_KEY and settings.GEMINI_API_KEY are set
    call,       \* one call of _call_ai_json
    \* the chunking of the manuscript
    manuscript,
    chunking,   \* the result of the chunking of the manuscript
    \* the split of the shared events of two characters
    shared,     \* the shared Event rows: their (chronological_order, sequence_order)
    split,      \* the ordered list and its batches
    \* the relationship analysis of one pair of characters
    chars,          \* Character rows: traits, motivation, role
    story,          \* Event rows: characters, content
    summaryCache,   \* InteractionSummaryCache rows, in the order of their creation
    analysisCache,  \* RelationshipAnalysisCache rows, in the order of their creation
    relationships,  \* CharacterRelationship rows
    runs,           \* the analyses in progress: position and locals
    analysed,       \* what the row of analysisCache was computed from
    relRequests,    \* how many requests on the pair were served
    \* the character pass of the import
    characters,     \* Character rows of the user, in the order of their creation
    charPass,       \* the pass: its position, char_data and char_map
    scan,   \* scan_text of a ContextResolver: the rows, the text and the result
    scan_status,    \* the StoryScanStatus row of the book
    triggers,    \* the api_trigger_deep_scan requests: position, reply, instance
    scans,    \* the run_deep_scan threads: position, instance
    book_caches,   \* the book has RelationshipAnalysisCache or InteractionSummaryCache rows
    pair,    \* the CharacterRelationship rows of one pair
    pairRequests,   \* how many writes of the pair were made
    profile,    \* the sparse fields of one Character row
    sync,   \* the last enrichment: reply, updated_fields, whether it saved
    word_events,    \* the Event rows: book and word_count
    current_word_count,    \* Book.current_word_count of the two books
    event_requests,   \* how many event requests were served
    dated,    \* the Event rows: date_type, date, relative_to_event, relative_days
    resolve,   \* one call of get_absolute_date: the stack of its frames and its value
    rel_rows,    \* the CharacterRelationship rows: id, user, character_a, character_b
    event_order,    \* sequence_order of the events
    tags,    \* the Tag rows: id, user
    activity,    \* the ActivityLog rows, oldest first
    response,    \* the answer to the last request and the rows it shows
    tenant_requests    \* the requests made so far

importVars == <<book, imp, chapters, events, bulk, requests, upload>>

callVars == <<keys, call>>

chunkVars == <<manuscript, chunking>>

splitVars == <<shared, split>>

relVars == <<chars, story, summaryCache, analysisCache, relationships, runs,
             analysed, relRequests>>

charPassVars == <<characters, charPass>>

scanVars == <<scan>>

deepVars == <<scan_status, triggers, scans, book_caches>>

strengthVars == <<pair, pairRequests>>

syncVars == <<profile, sync>>

wordsVars == <<word_events, current_word_count, event_requests>>

datesVars == <<dated, resolve>>

tenantVars == <<rel_rows, event_order, tags, activity, response, tenant_requests>>

vars == <<importVars, callVars, chunkVars, splitVars, relVars, charPassVars, scanVars, deepVars, strengthVars, syncVars, wordsVars, datesVars, tenantVars>>

\* What the actions of one part leave alone.
notImport == <<callVars, chunkVars, splitVars, relVars, charPassVars, scanVars, deepVars, strengthVars, syncVars, wordsVars, datesVars, tenantVars>>

notCall == <<importVars, chunkVars, splitVars, relVars, charPassVars, scanVars, deepVars, strengthVars, syncVars, wordsVars, datesVars, tenantVars>>

notChunk == <<importVars, callVars, splitVars, relVars, charPassVars, scanVars, deepVars, strengthVars, syncVars, wordsVars, datesVars, tenantVars>>

notSplit == <<importVars, callVars, chunkVars, relVars, charPassVars, scanVars, deepVars, strengthVars, syncVars, wordsVars, datesVars, tenantVars>>

notRel == <<importVars, callVars, chunkVars, splitVars, charPassVars, scanVars, deepVars, strengthVars, syncVars, wordsVars, datesVars, tenantVars>>

notCharPass == <<importVars, callVars, chunkVars, splitVars, relVars, scanVars, deepVars, strengthVars, syncVars, wordsVars, datesVars, tenantVars>>

notScan == <<importVars, callVars, chunkVars, splitVars, relVars, charPassVars, deepVars, strengthVars, syncVars, wordsVars, datesVars, tenantVars>>

notDeep == <<importVars, callVars, chunkVars, splitVars, relVars, charPassVars, scanVars, strengthVars, syncVars, wordsVars, datesVars, tenantVars>>

notStrength == <<importVars, callVars, chunkVars, splitVars, relVars, charPassVars, scanVars, deepVars, syncVars, wordsVars, datesVars, tenantVars>>

notSync == <<importVars, callVars, chunkVars, splitVars, relVars, charPassVars, scanVars, deepVars, strengthVars, wordsVars, datesVars, tenantVars>>

notWords == <<importVars, callVars, chunkVars, splitVars, relVars, charPassVars, scanVars, deepVars, strengthVars, syncVars, datesVars, tenantVars>>

notDates == <<importVars, callVars, chunkVars, splitVars, relVars, charPassVars, scanVars, deepVars, strengthVars, syncVars, wordsVars, tenantVars>>

notTenant == <<importVars, callVars, chunkVars, splitVars, relVars, charPassVars, scanVars, deepVars, strengthVars, syncVars, wordsVars, datesVars>>

\* ------------------------------------------------------------------------
\* Small helpers
\* ------------------------------------------------------------------------
Range(s) == {s[k] : k \in 1..Len(s)}

SeqsUpTo(S, n) == UNION {[1..k -> S] : k \in 0..n}

Max2(a, b) == IF a >= b THEN a ELSE b

Min2(a, b) == IF a <= b THEN a ELSE b

\* ------------------------------------------------------------------------
\* Tables used by the import (timeline/models.py)
\* ------------------------------------------------------------------------
\* "imported" is the book book_import creates, "other" another book of the user.
Books == {"imported", "other"}

\* The requests of the model address the book under import; the chapters of
\* the other book are there from the start.
RequestBooks == {"imported"}

ChapNums == {1, 2}

ChapterKeys == Books \X ChapNums

BookExists(b) == IF b = "imported" THEN book.exists ELSE TRUE

ChapterInsertUnchecked(b, n) == BookExists(b)

\* Chapter.Meta: unique_together = ['book', 'chapter_number'], and the foreign
\* key to Book: the insert (or the update of the number) is refused with an
\* IntegrityError when either would be broken.
ChapterInsertAllowed(b, n) == BookExists(b) /\ chapters[<<b, n>>] = 0

NoBookRow == [exists |-> FALSE, title |-> "none", status |-> "none", import_progress |-> 0]

IdleThread ==
    [pc |-> "idle",
     mem |-> [title |-> "none", status |-> "none", import_progress |-> 0],
     total_chunks |-> 0, i |-> 0,
     ai_chapters |-> <<>>, ai_events |-> {}, idx |-> 0,
     new_chapters |-> 0, new_events |-> 0, skipped_batches |-> 0,
     failed |-> FALSE,
     \* history of the run, not read by the code
     attempted |-> {}, no_data |-> {}, collisions |-> 0]

\* no upload yet; edited is history: book_edit has committed while the thread ran
NoUpload == [pc |-> "none", reply |-> "none", threads |-> 0, before |-> {}, edited |-> FALSE]

IdleBulk == [pc |-> "idle", book |-> "other", current_number |-> 0, files |-> 0]

InitImport ==
    /\ book = NoBookRow
    /\ imp = IdleThread
    /\ chapters = [k \in ChapterKeys |-> IF k[1] = "other" THEN 1 ELSE 0]
    /\ events = [k \in ChapterKeys |-> 0]
    /\ bulk = IdleBulk
    /\ requests = 0
    /\ upload = NoUpload

\* book.save() in the thread: every column is written from the instance the
\* thread loaded at its start; a row deleted meanwhile is inserted again.
SavedBook(mem) ==
    [exists |-> TRUE, title |-> mem.title, status |-> mem.status,
     import_progress |-> mem.import_progress]

\* ------------------------------------------------------------------------
\* book_import (views.py 314-355)
\* ------------------------------------------------------------------------
\* Book.objects.filter(user=request.user)
BooksOfUser == {b \in Books : BookExists(b)}

KeptBook(row) == row

\* book.delete() of 341: the row is gone
DeletedBook(row) == NoBookRow

\* 321-333: the Book row is created before the text is extracted
BookImportCreate ==
    /\ upload.pc \in {"none", "failed"}
    /\ imp.pc = "idle"
    /\ ~book.exists
    /\ book' = [exists |-> TRUE, title |-> "uploaded", status |-> "importing",
                import_progress |-> 5]
    /\ upload' = [NoUpload EXCEPT !.pc = "created", !.before = BooksOfUser]
    /\ UNCHANGED <<imp, chapters, events, bulk, requests>>
    /\ UNCHANGED notImport

\* 336-355: without content the book is deleted again (its chapters and
\* events go with it) and the reply is an error; with content the thread is
\* started and the reply is sent at once.
BookImportExtract ==
    /\ upload.pc = "created"
    /\ \E extracted \in BOOLEAN, n \in 1..MaxChunks :
         IF extracted
         THEN /\ imp' = [IdleThread EXCEPT !.pc = "start", !.total_chunks = n]
              /\ upload' = [upload EXCEPT !.pc = "started", !.reply = "success",
                                          !.threads = @ + 1]
              /\ UNCHANGED <<book, chapters, events>>
         ELSE /\ book' = DeletedBook(book)
              /\ chapters' = [k \in ChapterKeys |-> IF k[1] = "imported" THEN 0 ELSE chapters[k]]
              /\ events' = [k \in ChapterKeys |-> IF k[1] = "imported" THEN 0 ELSE events[k]]
              /\ upload' = [upload EXCEPT !.pc = "failed", !.reply = "error"]
              /\ imp' = imp
    /\ UNCHANGED <<bulk, requests>>
    /\ UNCHANGED notImport

\* book_edit (views.py 299-311): the form loads the row and saves it with the
\* posted title; the other columns are posted as they were loaded.
book_edit ==
    /\ requests < MaxRequests
    /\ book.exists
    /\ book' = [book EXCEPT !.title = "edited"]
    /\ upload' = [upload EXCEPT !.edited = @ \/ imp.pc \notin {"idle", "done"}]
    /\ requests' = requests + 1
    /\ UNCHANGED <<imp, chapters, events, bulk>>
    /\ UNCHANGED notImport

\* ------------------------------------------------------------------------
\* run_background_book_import (views.py 358-603)
\* ------------------------------------------------------------------------
\* 368-375: load the book, progress 15, save.  Book.DoesNotExist goes to the
\* handler of 594.
ImportStart ==
    /\ imp.pc = "start"
    /\ IF book.exists
       THEN LET m == [title |-> book.title, status |-> book.status, import_progress |-> 15]
            IN /\ imp' = [imp EXCEPT !.pc = "characters", !.mem = m]
               /\ book' = SavedBook(m)
       ELSE /\ imp' = [imp EXCEPT !.pc = "except"]
            /\ book' = book
    /\ UNCHANGED <<chapters, events, bulk, requests, upload>>
    /\ UNCHANGED notImport

\* 377-480: the character pass (its merging is CharacterPass* below), then
\* progress 25 and save.  A truthy answer that is no JSON object with a list
\* under 'characters' raises out of the main body.
ImportCharacters ==
    /\ imp.pc = "characters"
    /\ \E answer \in {"none", "data", "malformed"} :
         IF answer = "malformed"
         THEN /\ imp' = [imp EXCEPT !.pc = "except"]
              /\ book' = book
         ELSE LET m == [imp.mem EXCEPT !.import_progress = 25]
              IN /\ imp' = [imp EXCEPT !.pc = "batch", !.mem = m, !.i = 0]
                 /\ book' = SavedBook(m)
    /\ UNCHANGED <<chapters, events, bulk, requests, upload>>
    /\ UNCHANGED notImport

batch_size == 2

ProgressFalling(i, total_chunks) == 95 - ((i * 70) \div total_chunks)

\* 507: int(25 + ((i / total_chunks) * 70))
ProgressChunk(i, total_chunks) == 25 + ((i * 70) \div total_chunks)

BatchStarts(total_chunks) == {b \in 0..(total_chunks - 1) : b % batch_size = 0}

\* 504-510: the head of the batch loop.
ImportBatchHead ==
    /\ imp.pc = "batch"
    /\ IF imp.i < imp.total_chunks
       THEN LET m == [imp.mem EXCEPT
                        !.import_progress = ProgressChunk(imp.i, imp.total_chunks)]
            IN /\ imp' = [imp EXCEPT !.pc = "analyze", !.mem = m]
               /\ book' = SavedBook(m)
       ELSE /\ imp' = [imp EXCEPT !.pc = "finish"]
            /\ book' = book
    /\ UNCHANGED <<chapters, events, bulk, requests, upload>>
    /\ UNCHANGED notImport

\* One chapter of the answer: with a 'number', without one, or one whose
\* creation raises for another reason (a title that is no string, ...).
AiChapterEntries ==
    {[kind |-> "number", number |-> n] : n \in ChapNums}
        \cup {[kind |-> "absent", number |-> 0], [kind |-> "bad", number |-> 0]}

\* The chapter lists an answer may hold.
AiChapterLists == SeqsUpTo(AiChapterEntries, 2)

SkipBatchAndStop(t) == [t EXCEPT !.pc = "finish", !.skipped_batches = t.skipped_batches + 1]

\* What happens to a batch whose analysis gave nothing or raised (520-523 and
\* 580-583): it is counted and the loop goes on with the next batch.
SkipBatch(t) ==
    [t EXCEPT !.pc = "batch", !.i = t.i + batch_size,
              !.skipped_batches = t.skipped_batches + 1]

\* 512-525: analyze_book_content_batch_with_ai.
ImportAnalyze ==
    /\ imp.pc = "analyze"
    /\ \/ \E answer \in {"none", "malformed"} :
            imp' = [SkipBatch(imp) EXCEPT !.attempted = imp.attempted \cup {imp.i},
                                          !.no_data = imp.no_data \cup {imp.i}]
       \/ \E chs \in AiChapterLists, evs \in {{}, ChapNums} :
            imp' = [imp EXCEPT !.pc = "chapter", !.ai_chapters = chs, !.ai_events = evs,
                               !.idx = 1, !.attempted = imp.attempted \cup {imp.i}]
    /\ UNCHANGED <<book, chapters, events, bulk, requests, upload>>
    /\ UNCHANGED notImport

\* 537: chap_info.get('number', new_chapters + 1)
ChapterNumberOf(entry, new_chapters) ==
    IF entry.kind = "number" THEN entry.number ELSE new_chapters + 1

\* The entry's number is the number of a chapter the book already has.
NumberTaken(entry, new_chapters) ==
    /\ entry.kind # "bad"
    /\ ChapterNumberOf(entry, new_chapters) \in ChapNums
    /\ chapters[<<"imported", ChapterNumberOf(entry, new_chapters)>>] > 0

\* Whether Chapter.objects.create of 535 succeeds for this entry.
ChapterCreated(entry, new_chapters) ==
    /\ entry.kind # "bad"
    /\ ChapterNumberOf(entry, new_chapters) \in ChapNums
    /\ ChapterInsertAllowed("imported", ChapterNumberOf(entry, new_chapters))

\* 526-578: one chapter of the answer, with the events of its number.  Any
\* exception is caught at 577 and the next chapter follows.
ImportChapter ==
    /\ imp.pc = "chapter"
    /\ IF imp.idx > Len(imp.ai_chapters)
       THEN /\ imp' = [imp EXCEPT !.pc = "batch", !.i = imp.i + batch_size]
            /\ UNCHANGED <<chapters, events>>
       ELSE LET entry == imp.ai_chapters[imp.idx]
                n == ChapterNumberOf(entry, imp.new_chapters)
            IN IF ChapterCreated(entry, imp.new_chapters)
               THEN /\ chapters' = [chapters EXCEPT ![<<"imported", n>>] = @ + 1]
                    /\ IF n \in imp.ai_events
                       THEN /\ events' = [events EXCEPT ![<<"imported", n>>] = @ + 1]
                            /\ imp' = [imp EXCEPT !.idx = imp.idx + 1,
                                                  !.new_chapters = imp.new_chapters + 1,
                                                  !.new_events = imp.new_events + 1]
                       ELSE /\ events' = events
                            /\ imp' = [imp EXCEPT !.idx = imp.idx + 1,
                                                  !.new_chapters = imp.new_chapters + 1]
               ELSE /\ imp' = [imp EXCEPT !.idx = imp.idx + 1,
                                          !.collisions = IF NumberTaken(entry, imp.new_chapters)
                                                         THEN @ + 1 ELSE @]
                    /\ UNCHANGED <<chapters, events>>
    /\ UNCHANGED <<book, bulk, requests, upload>>
    /\ UNCHANGED notImport

\* 585-592: mark as live.
ImportFinish ==
    /\ imp.pc = "finish"
    /\ LET m == [imp.mem EXCEPT !.status = "drafting", !.import_progress = 100]
       IN /\ imp' = [imp EXCEPT !.pc = "done", !.mem = m]
          /\ book' = SavedBook(m)
    /\ UNCHANGED <<chapters, events, bulk, requests, upload>>
    /\ UNCHANGED notImport

ImportExceptKeepsStatus ==
    /\ imp.pc = "except"
    /\ imp' = [imp EXCEPT !.pc = "done", !.failed = TRUE]
    /\ UNCHANGED <<book, chapters, events, bulk, requests, upload>>
    /\ UNCHANGED notImport

\* 594-603: the handler of the main body; it loads the book again.
ImportExcept ==
    /\ imp.pc = "except"
    /\ IF book.exists
       THEN LET m == [title |-> book.title, status |-> "drafting", import_progress |-> 100]
            IN /\ imp' = [imp EXCEPT !.pc = "done", !.mem = m, !.failed = TRUE]
               /\ book' = SavedBook(m)
       ELSE /\ imp' = [imp EXCEPT !.pc = "done", !.failed = TRUE]
            /\ book' = book
    /\ UNCHANGED <<chapters, events, bulk, requests, upload>>
    /\ UNCHANGED notImport

ImportThread ==
    \/ ImportStart
    \/ ImportCharacters
    \/ ImportBatchHead
    \/ ImportAnalyze
    \/ ImportChapter
    \/ ImportFinish
    \/ ImportExcept

\* ------------------------------------------------------------------------
\* Requests on the chapters and the book while the import runs
\* ------------------------------------------------------------------------
\* chapter_create (views.py 1177-1207): the form does not hold the book, so
\* the uniqueness is left to the database.
ChapterCreate ==
    /\ requests < MaxRequests
    /\ \E b \in RequestBooks, n \in ChapNums :
         /\ BookExists(b)
         /\ IF ChapterInsertAllowed(b, n)
            THEN chapters' = [chapters EXCEPT ![<<b, n>>] = @ + 1]
            ELSE chapters' = chapters
    /\ requests' = requests + 1
    /\ UNCHANGED <<book, imp, events, bulk, upload>>
    /\ UNCHANGED notImport

\* chapter_delete (views.py 1253-1263); the events of the chapter go with it.
ChapterDelete ==
    /\ requests < MaxRequests
    /\ \E k \in RequestBooks \X ChapNums :
         /\ chapters[k] > 0
         /\ chapters' = [chapters EXCEPT ![k] = @ - 1]
         /\ events' = [events EXCEPT ![k] = 0]
    /\ requests' = requests + 1
    /\ UNCHANGED <<book, imp, bulk, upload>>
    /\ UNCHANGED notImport

MaxNumber(b) ==
    LET used == {n \in ChapNums : chapters[<<b, n>>] > 0}
    IN IF used = {} THEN 0 ELSE CHOOSE n \in used : \A m \in used : m <= n

\* chapter_bulk_upload (views.py 1266-1300): the next number is read once,
\* then one chapter is saved per file.
BulkUploadStart ==
    /\ bulk.pc = "idle"
    /\ requests < MaxRequests
    /\ \E b \in RequestBooks, files \in 1..2 :
         /\ BookExists(b)
         /\ bulk' = [pc |-> "saving", book |-> b,
                     current_number |-> MaxNumber(b) + 1, files |-> files]
    /\ requests' = requests + 1
    /\ UNCHANGED <<book, imp, chapters, events, upload>>
    /\ UNCHANGED notImport

BulkUploadSave ==
    /\ bulk.pc = "saving"
    /\ IF /\ bulk.current_number \in ChapNums
          /\ ChapterInsertAllowed(bulk.book, bulk.current_number)
       THEN /\ chapters' = [chapters EXCEPT ![<<bulk.book, bulk.current_number>>] = @ + 1]
            /\ bulk' = IF bulk.files = 1
                       THEN IdleBulk
                       ELSE [bulk EXCEPT !.current_number = @ + 1, !.files = @ - 1]
       ELSE \* IntegrityError: the request ends with an error
            /\ chapters' = chapters
            /\ bulk' = IdleBulk
    /\ UNCHANGED <<book, imp, events, requests, upload>>
    /\ UNCHANGED notImport

\* book_delete (views.py 626-649); chapters and events cascade.
BookDelete ==
    /\ requests < MaxRequests
    /\ book.exists
    /\ book' = NoBookRow
    /\ chapters' = [k \in ChapterKeys |-> IF k[1] = "imported" THEN 0 ELSE chapters[k]]
    /\ events' = [k \in ChapterKeys |-> IF k[1] = "imported" THEN 0 ELSE events[k]]
    /\ requests' = requests + 1
    /\ UNCHANGED <<imp, bulk, upload>>
    /\ UNCHANGED notImport

NextImport ==
    \/ BookImportCreate
    \/ BookImportExtract
    \/ ImportThread
    \/ ChapterCreate
    \/ ChapterDelete
    \/ BulkUploadStart
    \/ BulkUploadSave
    \/ BookDelete

\* ------------------------------------------------------------------------
\* _call_ai_json (views.py 937-981)
\* ------------------------------------------------------------------------
default_max_retries == 3

MaxRetries == 4

IdleCall ==
    [pc |-> "idle", max_retries |-> default_max_retries,
     deepseek_model |-> "deepseek-chat", prefer_gemini |-> FALSE,
     attempt |-> 0, result |-> "unset",
     providers |-> <<>>,     \* the provider of each attempt made
     answers |-> <<>>,       \* what each attempt gave
     sleeps |-> <<>>]        \* the seconds slept after the failed attempts

InitCall ==
    /\ keys = [deepseek |-> TRUE, gemini |-> FALSE]
    /\ call = IdleCall

RECURSIVE Pow2(_)
Pow2(n) == IF n = 0 THEN 1 ELSE 2 * Pow2(n - 1)

\* 946-948
ShouldUseGemini(c) ==
    IF c.deepseek_model = "deepseek-reasoner"
    THEN ~keys.deepseek
    ELSE (c.prefer_gemini /\ keys.gemini) \/ ~keys.deepseek

\* 939-942: the guard on the keys and the entry of the loop.
CallBegin ==
    /\ call.pc = "idle"
    /\ \E m \in 0..MaxRetries, model \in {"deepseek-chat", "deepseek-reasoner"},
          prefer \in BOOLEAN :
         LET c == [IdleCall EXCEPT !.max_retries = m, !.deepseek_model = model,
                                   !.prefer_gemini = prefer]
         IN IF ~keys.deepseek /\ ~keys.gemini
            THEN call' = [c EXCEPT !.pc = "returned", !.result = "None"]
            ELSE IF m = 0
                 THEN call' = [c EXCEPT !.pc = "returned", !.result = "None"]
                 ELSE call' = [c EXCEPT !.pc = "attempt"]
    /\ UNCHANGED keys
    /\ UNCHANGED notCall

RetryNever(attempt, max_retries) == FALSE

\* 978: if attempt < max_retries - 1
RetryAgain(attempt, max_retries) == attempt < max_retries - 1

\* 943-981: one attempt.  The provider answers with JSON, fails, times out or
\* answers with text json.loads refuses.
CallAttempt ==
    /\ call.pc = "attempt"
    /\ \E answer \in {"json", "error", "timeout", "unparsable"} :
         LET made == [call EXCEPT
                        !.providers = Append(@, IF ShouldUseGemini(call)
                                                THEN "gemini" ELSE "deepseek"),
                        !.answers = Append(@, answer)]
         IN IF answer = "json"
            THEN call' = [made EXCEPT !.pc = "returned", !.result = "json"]
            ELSE IF RetryAgain(call.attempt, call.max_retries)
                 THEN call' = [made EXCEPT
                                 !.sleeps = Append(@, Pow2(call.attempt)),
                                 !.attempt = @ + 1,
                                 \* range(max_retries) is exhausted: the
                                 \* function falls off its end
                                 !.pc = IF call.attempt + 1 < call.max_retries
                                        THEN "attempt" ELSE "returned",
                                 !.result = IF call.attempt + 1 < call.max_retries
                                            THEN "unset" ELSE "None"]
                 ELSE call' = [made EXCEPT !.pc = "returned", !.result = "None"]
    /\ UNCHANGED keys
    /\ UNCHANGED notCall

\* The caller takes the result.
CallReturn ==
    /\ call.pc = "returned"
    /\ call' = IdleCall
    /\ UNCHANGED keys
    /\ UNCHANGED notCall

NextCall ==
    \/ CallBegin
    \/ CallAttempt
    \/ CallReturn

InitRetry ==
    /\ keys \in [deepseek : BOOLEAN, gemini : BOOLEAN]
    /\ call = IdleCall

\* ------------------------------------------------------------------------
\* Chunking of the manuscript (views.py 482-498)
\* ------------------------------------------------------------------------
\* The manuscript is its text before the first match of chapter_regex and one
\* segment per match, from the start of the match to the start of the next one
\* (or to the end of the text).  A segment has a length and a number of
\* characters of white space at its two ends, which str.strip() removes.  A
\* chunk is a slice content[start:end] with the length of its text.
MaxHeadings == 3

min_chunk_length == 100

slice_size == 12000

PreambleLengths == {0, 30, 12000, 24001}

SegmentLengths == {60, 101, 102, 12001}

BlankLengths == {0, 1, 2}

Segments == [raw : SegmentLengths, blank : BlankLengths]

NoManuscript == [preamble |-> 0, segments |-> <<>>]

NotChunked == [pc |-> "content", mode |-> "none", chunks |-> <<>>]

RECURSIVE SumRaw(_, _)
SumRaw(segs, n) == IF n = 0 THEN 0 ELSE segs[n].raw + SumRaw(segs, n - 1)

\* len(content)
ContentLength(m) == m.preamble + SumRaw(m.segments, Len(m.segments))

\* 486-493: content[start:end].strip() of the match i.
RegexChunk(m, i) ==
    LET start == m.preamble + SumRaw(m.segments, i - 1)
    IN [start |-> start,
        end |-> start + m.segments[i].raw,
        length |-> m.segments[i].raw - m.segments[i].blank]

KeepsShortChunks(c) == c.length >= min_chunk_length

\* 494: if len(chunk_text) > 100
LongEnough(c) == c.length > min_chunk_length

RECURSIVE RegexChunksFrom(_, _)
RegexChunksFrom(m, i) ==
    IF i > Len(m.segments) THEN <<>>
    ELSE IF LongEnough(RegexChunk(m, i))
         THEN <<RegexChunk(m, i)>> \o RegexChunksFrom(m, i + 1)
         ELSE RegexChunksFrom(m, i + 1)

\* 488-495
RegexChunks(m) == RegexChunksFrom(m, 1)

RECURSIVE SlicesFrom(_, _, _)
SlicesFrom(i, n, width) ==
    IF i >= n THEN <<>>
    ELSE <<[start |-> i, end |-> Min2(i + width, n), length |-> Min2(i + width, n) - i]>>
            \o SlicesFrom(i + slice_size, n, width)

FallbackChunksShort(n) == SlicesFrom(0, n, slice_size - 1)

\* 498: [content[i:i+12000] for i in range(0, len(content), 12000)]
FallbackChunks(n) == SlicesFrom(0, n, slice_size)

\* 488-498
ChunkManuscript ==
    /\ chunking.pc = "content"
    /\ LET found == RegexChunks(manuscript)
       IN IF Len(found) < 2
          THEN chunking' = [pc |-> "chunked", mode |-> "fallback",
                            chunks |-> FallbackChunks(ContentLength(manuscript))]
          ELSE chunking' = [pc |-> "chunked", mode |-> "regex", chunks |-> found]
    /\ UNCHANGED manuscript
    /\ UNCHANGED notChunk

InitChunkIdle ==
    /\ manuscript = NoManuscript
    /\ chunking = NotChunked

\* book_import hands only non-empty content to the thread (views.py 336).
InitChunk ==
    /\ manuscript \in [preamble : PreambleLengths, segments : SeqsUpTo(Segments, MaxHeadings)]
    /\ ContentLength(manuscript) > 0
    /\ chunking = NotChunked

\* ------------------------------------------------------------------------
\* The split of the shared events (api_suggest_relationship,
\* _ensure_relationship_cache)
\* ------------------------------------------------------------------------
\* (chronological_order, sequence_order) of a saved Event: Event.save() copies
\* sequence_order into a chronological_order of 0.
OrderKeys == {<<1, 1>>, <<1, 2>>, <<2, 1>>}

NoShared == <<>>

NotSplit == [pc |-> "idle", all_events |-> <<>>, batches |-> <<>>]

\* order_by('chronological_order', 'sequence_order')
KeyLeq(k1, k2) == k1[1] < k2[1] \/ (k1[1] = k2[1] /\ k1[2] <= k2[2])

Ordered(rows, order) ==
    \A i \in 1..Len(order) : \A j \in 1..Len(order) :
        i < j => KeyLeq(rows[order[i]], rows[order[j]])

\* The lists the database may return: rows with equal keys come in any order.
Orderings(rows) ==
    {order \in [DOMAIN rows -> DOMAIN rows] :
        /\ \A i \in DOMAIN rows : \A j \in DOMAIN rows : order[i] = order[j] => i = j
        /\ Ordered(rows, order)}

\* chunk_size = math.ceil(total_count / 3)
chunk_size(total_count) == (total_count + 2) \div 3

\* range(0, total_count, chunk_size), as the number of its elements
BatchCount(total_count) ==
    (total_count + chunk_size(total_count) - 1) \div chunk_size(total_count)

\* batches = [all_events[i:i + chunk_size] for i in range(0, total_count, chunk_size)]
SplitBatches(all_events) ==
    LET total_count == Len(all_events)
    IN [k \in 1..BatchCount(total_count) |->
           SubSeq(all_events, (k - 1) * chunk_size(total_count) + 1,
                  Min2(k * chunk_size(total_count), total_count))]

\* The handler up to the list of batches; without shared events it returns
\* before the split.
OrderAndSplit ==
    /\ split.pc = "idle"
    /\ IF Len(shared) = 0
       THEN split' = [pc |-> "no_shared", all_events |-> <<>>, batches |-> <<>>]
       ELSE \E all_events \in Orderings(shared) :
                split' = [pc |-> "split", all_events |-> all_events,
                          batches |-> SplitBatches(all_events)]
    /\ UNCHANGED shared
    /\ UNCHANGED notSplit

InitSplitIdle ==
    /\ shared = NoShared
    /\ split = NotSplit

InitSplit ==
    /\ shared \in SeqsUpTo(OrderKeys, MaxShared)
    /\ split = NotSplit

\* ------------------------------------------------------------------------
\* The relationship analysis of a pair of characters and its two caches
\* (api_suggest_relationship, _ensure_relationship_cache,
\* _perform_relationship_analysis, api_manage_relationship)
\* ------------------------------------------------------------------------
\* character_a and character_b of the requests of the model
Characters == {"a", "b"}

\* The values of the free-text fields traits and motivation: any text, the
\* character "|" included.
Texts == {<<>>, <<"|">>}

Roles == {"protagonist", "supporting"}

\* The forms of character_create and character_edit: the requests of the model
\* write the texts of character a and the role of character b.
CharacterForms(c) ==
    IF c = "a" THEN [traits : Texts, motivation : Texts, role : {"protagonist"}]
    ELSE [traits : {<<>>}, motivation : {<<>>}, role : Roles]

\* character_create: the characters of the model are created without a
\* motivation, b with the default role.
NewCharacters(c) ==
    {form \in CharacterForms(c) :
        form.motivation = <<>> /\ (c = "b" => form.role = "supporting")}

\* The events of the story, in the order of their (chronological_order,
\* sequence_order), which the requests of the model leave alone.
EventIds == {1, 2}

\* The forms of event_edit: the requests of the model write the characters of
\* both events and the content of the first.
EventForms(e) ==
    [characters : {{"a", "b"}, {"a"}},
     content_html : IF e = 1 THEN {<<>>, <<"y">>} ELSE {<<>>}]

NewEvent == [characters |-> {"a", "b"}, content_html |-> <<>>]

\* description of every event of the model; content_json is empty.
EventDescription == <<"x">>

\* hashlib.sha256(...).hexdigest(), taken to be injective
Sha256(text) == <<"sha256", text>>

\* f"{char.traits}|{char.motivation}|{char.role}"
CharData(c) == c.traits \o <<"|">> \o c.motivation \o <<"|">> \o <<c.role>>

MetadataHash(c) == Sha256(CharData(c))

\* content = event.content_json or event.content_html or event.description or ""
EventContent(e) == IF e.content_html # <<>> THEN e.content_html ELSE EventDescription

\* Event.objects.filter(characters=char_a).filter(characters=char_b)
\*     .order_by('chronological_order', 'sequence_order')
SharedEvents(events_) ==
    LET ids == {e \in EventIds : {"a", "b"} \subseteq events_[e].characters}
        RECURSIVE Sorted(_)
        Sorted(S) == IF S = {} THEN <<>>
                     ELSE LET first == CHOOSE e \in S : \A f \in S : e <= f
                          IN <<first>> \o Sorted(S \ {first})
    IN Sorted(ids)

\* batch_content += f"{event.id}:{str(content)}|"
BatchContent(events_, batch) ==
    LET RECURSIVE Content(_)
        Content(k) ==
            IF k = 0 THEN <<>>
            ELSE Content(k - 1) \o <<ToString(batch[k])>> \o <<":">>
                     \o EventContent(events_[batch[k]]) \o <<"|">>
    IN Content(Len(batch))

BatchHashes(events_, batches) ==
    [k \in DOMAIN batches |-> Sha256(BatchContent(events_, batches[k]))]

\* "|".join(batch_hashes): hex digests have a fixed width and no "|", so the
\* joined string is the list of the digests.
SnapshotsHash(batch_hashes) == batch_hashes

\* What the hashes of one analysis were computed from.
AnalysisInputs(chars_, events_) ==
    [metadata |-> chars_,
     batches  |-> LET batches == SplitBatches(SharedEvents(events_))
                  IN [k \in DOMAIN batches |->
                         [j \in DOMAIN batches[k] |->
                             <<batches[k][j], EventContent(events_[batches[k][j]])>>]]]

\* The answers of the LLM.
None == [none |-> TRUE]

SummaryAnswers == {None, [summary |-> "summary"], [other |-> "text"]}

failed_summary == "Summary generation failed."

\* summary_text = result['summary'] if (result and 'summary' in result) else ...
SummaryText(result) ==
    IF result # None /\ "summary" \in DOMAIN result THEN result.summary ELSE failed_summary

AiStrengths == {1, 10}

AiAnswers == {None, [type |-> "ally"]} \cup [type : {"ally"}, strength : AiStrengths]

\* dict.get(key, default)
Get(dict, key, default) == IF key \in DOMAIN dict THEN dict[key] ELSE default

\* --- the tables -----------------------------------------------------------
\* A filter gives the indices of the rows it selects.
\* .first() on an unordered queryset of a table without Meta.ordering: the row
\* of the lowest primary key.
First(S) == CHOOSE k \in S : \A j \in S : k <= j

SummaryHitsAnyHash(table, idx, hash) ==
    {k \in DOMAIN table :
        /\ table[k].character_a = "a"
        /\ table[k].character_b = "b"
        /\ table[k].batch_index = idx}

\* InteractionSummaryCache.objects.filter(character_a=, character_b=,
\*     batch_index=idx, content_hash=hash)
SummaryHits(table, idx, hash) ==
    {k \in DOMAIN table :
        /\ table[k].character_a = "a"
        /\ table[k].character_b = "b"
        /\ table[k].batch_index = idx
        /\ table[k].content_hash = hash}

\* The lookup of update_or_create(character_a=, character_b=, batch_index=idx)
SummaryRows(table, idx) ==
    {k \in DOMAIN table :
        /\ table[k].character_a = "a"
        /\ table[k].character_b = "b"
        /\ table[k].batch_index = idx}

SummaryRow(idx, hash, text) ==
    [character_a |-> "a", character_b |-> "b", batch_index |-> idx,
     content_hash |-> hash, summary_text |-> text]

\* The uniqueness of (character_a, character_b, batch_index) in the table of
\* the batch summaries.
SummaryInsertAllowed(table, idx) == SummaryRows(table, idx) = {}

\* RelationshipAnalysisCache.objects.filter(character_a=, character_b=,
\*     char_a_metadata_hash=, char_b_metadata_hash=, interaction_snapshots_hash=)
AnalysisHits(table, h_a, h_b, snapshots_hash) ==
    {k \in DOMAIN table :
        /\ table[k].character_a = "a"
        /\ table[k].character_b = "b"
        /\ table[k].char_a_metadata_hash = h_a
        /\ table[k].char_b_metadata_hash = h_b
        /\ table[k].interaction_snapshots_hash = snapshots_hash}

AnalysisRows(table) ==
    {k \in DOMAIN table :
        /\ table[k].character_a = "a"
        /\ table[k].character_b = "b"}

AnalysisRow(full_json, h_a, h_b, snapshots_hash) ==
    [character_a |-> "a", character_b |-> "b", full_json |-> full_json,
     char_a_metadata_hash |-> h_a, char_b_metadata_hash |-> h_b,
     interaction_snapshots_hash |-> snapshots_hash]

\* CharacterRelationship rows of (user, character_a, character_b)
RelRows(table) == {rel \in table : rel.character_a = "a" /\ rel.character_b = "b"}

default_strength == 5

default_trust_level == 5

default_ai_strength == 5

\* CharacterRelationship.objects.get_or_create(..., defaults={'relationship_type': ...})
CreatedRel(ai_response) ==
    [character_a |-> "a", character_b |-> "b",
     relationship_type |-> Get(ai_response, "type", "neutral"),
     strength |-> default_strength, trust_level |-> default_trust_level]

OverwritesAlways(ai_strength, rel, created) == TRUE

\* if ai_strength >= rel.strength or created:
ShouldOverwrite(ai_strength, rel, created) == ai_strength >= rel.strength \/ created

\* The assignments of the smart sync.
Overwritten(rel, ai_response) ==
    [rel EXCEPT !.relationship_type = Get(ai_response, "type", rel.relationship_type),
                !.strength = Get(ai_response, "strength", default_ai_strength),
                !.trust_level = Get(ai_response, "trust_level", rel.trust_level)]

\* The relationship table after the mirror of _perform_relationship_analysis.
Mirrored(table, ai_response) ==
    LET created == RelRows(table) = {}
        rel == IF created THEN CreatedRel(ai_response) ELSE CHOOSE r \in RelRows(table) : TRUE
    IN IF ShouldOverwrite(Get(ai_response, "strength", default_ai_strength), rel, created)
       THEN (table \ {rel}) \cup {Overwritten(rel, ai_response)}
       ELSE table \cup {rel}

\* --- the analysis ---------------------------------------------------------
\* "request" is a request to api_suggest_relationship, "scan" a call of
\* _ensure_relationship_cache by the deep scan; both run the same steps.
Runs == {"request", "scan"}

NoReply == [status |-> "none", cached |-> FALSE, suggestion |-> None]

NoInputs == [metadata |-> <<>>, batches |-> <<>>]

IdleRun ==
    [pc |-> "idle", h_a |-> <<>>, h_b |-> <<>>, batch_hashes |-> <<>>, idx |-> 0,
     summaries |-> <<>>, summary_text |-> "", ai_response |-> None, reply |-> NoReply,
     \* history: the LLM calls of the run, whether the final cache was hit, and
     \* what the hashes were computed from
     calls |-> <<>>, hit |-> FALSE, inputs |-> NoInputs]

no_shared_scenes == [type |-> "neutral", strength |-> 1]

\* JsonResponse of api_suggest_relationship; _ensure_relationship_cache returns nothing.
Reply(r, status, cached, suggestion) ==
    IF r = "request"
    THEN [status |-> status, cached |-> cached, suggestion |-> suggestion]
    ELSE NoReply

\* The handler returns: its locals are gone, its reply and its history stay.
Returned(run, reply) ==
    [IdleRun EXCEPT !.pc = "done", !.reply = reply, !.ai_response = run.ai_response,
                    !.calls = run.calls, !.hit = run.hit, !.inputs = run.inputs]

\* The metadata hashes, the shared events, their batches and hashes, and the
\* lookup in the cache of the final results.
AnalysisBegin(r) ==
    /\ runs[r].pc \in {"idle", "done"}
    /\ relRequests < MaxRelRequests
    /\ relRequests' = relRequests + 1
    /\ LET h_a == MetadataHash(chars["a"])
           h_b == MetadataHash(chars["b"])
           all_events == SharedEvents(story)
           batches == SplitBatches(all_events)
           batch_hashes == BatchHashes(story, batches)
           cache_hit == AnalysisHits(analysisCache, h_a, h_b, SnapshotsHash(batch_hashes))
           begun == [IdleRun EXCEPT !.h_a = h_a, !.h_b = h_b,
                                    !.batch_hashes = batch_hashes,
                                    !.inputs = AnalysisInputs(chars, story)]
       IN runs' = [runs EXCEPT ![r] =
              IF Len(all_events) = 0
              THEN Returned(IdleRun, Reply(r, "success", FALSE, no_shared_scenes))
              ELSE IF cache_hit # {}
              THEN Returned([begun EXCEPT !.hit = TRUE],
                            Reply(r, "success", TRUE,
                                  analysisCache[First(cache_hit)].full_json))
              ELSE [begun EXCEPT !.pc = "batch"]]
    /\ UNCHANGED <<chars, story, summaryCache, analysisCache, relationships, analysed>>
    /\ UNCHANGED notRel

\* for idx in range(len(batches)): the next batch, or the synthesis
NextBatch(run) ==
    IF run.idx + 1 < Len(run.batch_hashes)
    THEN [run EXCEPT !.pc = "batch", !.idx = @ + 1]
    ELSE [run EXCEPT !.pc = "synth", !.idx = @ + 1]

\* An exception leaves the handler through its except clause.
Raised(r, run) == Returned(run, Reply(r, "error", FALSE, None))

\* One batch: the lookup of its summary, on a miss the LLM call and the lookup
\* of update_or_create, which updates the row it finds.
SummaryBatch(r) ==
    /\ runs[r].pc = "batch"
    /\ LET run == runs[r]
           hash == run.batch_hashes[run.idx + 1]
           summary_cache == SummaryHits(summaryCache, run.idx, hash)
           rows == SummaryRows(summaryCache, run.idx)
       IN IF summary_cache # {}
          THEN /\ runs' = [runs EXCEPT ![r] = NextBatch(
                       [run EXCEPT !.summaries =
                            Append(@, summaryCache[First(summary_cache)].summary_text)])]
               /\ UNCHANGED summaryCache
          ELSE \E result \in SummaryAnswers :
                 LET called == [run EXCEPT
                                  !.summaries = Append(@, SummaryText(result)),
                                  !.summary_text = SummaryText(result),
                                  !.calls = Append(@, [call |-> "summary",
                                                       batch_index |-> run.idx])]
                 IN IF rows = {}
                    THEN /\ runs' = [runs EXCEPT ![r] = [called EXCEPT !.pc = "create"]]
                         /\ UNCHANGED summaryCache
                    ELSE IF Cardinality(rows) = 1
                    THEN /\ runs' = [runs EXCEPT ![r] = NextBatch(called)]
                         /\ summaryCache' = [summaryCache EXCEPT ![First(rows)] =
                                SummaryRow(run.idx, hash, SummaryText(result))]
                    ELSE /\ runs' = [runs EXCEPT ![r] = Raised(r, called)]
                         /\ UNCHANGED summaryCache
    /\ UNCHANGED <<chars, story, analysisCache, relationships, analysed, relRequests>>
    /\ UNCHANGED notRel

\* The insert of update_or_create; when the table refuses it, the row that is
\* there is updated instead.
SummaryCreate(r) ==
    /\ runs[r].pc = "create"
    /\ LET run == runs[r]
           hash == run.batch_hashes[run.idx + 1]
           rows == SummaryRows(summaryCache, run.idx)
       IN /\ summaryCache' =
                 IF SummaryInsertAllowed(summaryCache, run.idx)
                 THEN Append(summaryCache, SummaryRow(run.idx, hash, run.summary_text))
                 ELSE [summaryCache EXCEPT ![First(rows)] =
                          SummaryRow(run.idx, hash, run.summary_text)]
          /\ runs' = [runs EXCEPT ![r] = NextBatch(run)]
    /\ UNCHANGED <<chars, story, analysisCache, relationships, analysed, relRequests>>
    /\ UNCHANGED notRel

\* _perform_relationship_analysis: the synthesis call, the cache of the final
\* results and the mirror into the permanent record.
Synthesize(r) ==
    /\ runs[r].pc = "synth"
    /\ \E ai_response \in AiAnswers :
         LET run == [runs[r] EXCEPT !.ai_response = ai_response,
                                    !.calls = Append(@, [call |-> "synthesis",
                                                         batch_index |-> -1])]
             rows == AnalysisRows(analysisCache)
             row == AnalysisRow(ai_response, run.h_a, run.h_b,
                                SnapshotsHash(run.batch_hashes))
         IN IF ai_response = None
            THEN /\ runs' = [runs EXCEPT ![r] =
                       Returned(run, Reply(r, "success", FALSE, None))]
                 /\ UNCHANGED <<analysisCache, relationships, analysed>>
            ELSE IF Cardinality(rows) > 1
            THEN /\ runs' = [runs EXCEPT ![r] = Raised(r, run)]
                 /\ UNCHANGED <<analysisCache, relationships, analysed>>
            ELSE /\ analysisCache' =
                       IF rows = {} THEN Append(analysisCache, row)
                       ELSE [analysisCache EXCEPT ![First(rows)] = row]
                 /\ analysed' = run.inputs
                 /\ relationships' = Mirrored(relationships, ai_response)
                 /\ runs' = [runs EXCEPT ![r] =
                       Returned(run, Reply(r, "success", FALSE, ai_response))]
    /\ UNCHANGED <<chars, story, summaryCache, relRequests>>
    /\ UNCHANGED notRel

Analysis(r) == AnalysisBegin(r) \/ SummaryBatch(r) \/ SummaryCreate(r) \/ Synthesize(r)

\* --- the requests of the user --------------------------------------------
\* character_edit: the form writes the fields of the character.
CharacterEdit(c, form) ==
    /\ relRequests < MaxRelRequests
    /\ relRequests' = relRequests + 1
    /\ chars' = [chars EXCEPT ![c] = form]
    /\ UNCHANGED <<story, summaryCache, analysisCache, relationships, runs, analysed>>
    /\ UNCHANGED notRel

\* event_edit: the form writes the characters and the content of the event.
EventEdit(e, form) ==
    /\ relRequests < MaxRelRequests
    /\ relRequests' = relRequests + 1
    /\ story' = [story EXCEPT ![e] = form]
    /\ UNCHANGED <<chars, summaryCache, analysisCache, relationships, runs, analysed>>
    /\ UNCHANGED notRel

UserStrengths == {10}

\* api_manage_relationship, action 'save': with the id of the row it updates
\* the row, without an id it creates the row unless the pair has one.
\* the table after the update (2030-2051) or the create (2053-2076)
ManagedTable(table, with_id, rel_type, strength, trust) ==
    LET saved == [character_a |-> "a", character_b |-> "b",
                  relationship_type |-> rel_type, strength |-> strength,
                  trust_level |-> trust]
    IN IF with_id THEN (table \ RelRows(table)) \cup {saved}
       ELSE IF RelRows(table) # {} THEN table
       ELSE table \cup {saved}

ManageSave(with_id, rel_type, strength) ==
    /\ relRequests < MaxRelRequests
    /\ relRequests' = relRequests + 1
    /\ with_id => RelRows(relationships) # {}
    /\ relationships' = ManagedTable(relationships, with_id, rel_type, strength,
                                     default_trust_level)
    /\ UNCHANGED <<chars, story, summaryCache, analysisCache, runs, analysed>>
    /\ UNCHANGED notRel

\* api_manage_relationship, action 'delete'
ManageDelete ==
    /\ relRequests < MaxRelRequests
    /\ relRequests' = relRequests + 1
    /\ RelRows(relationships) # {}
    /\ relationships' = relationships \ RelRows(relationships)
    /\ UNCHANGED <<chars, story, summaryCache, analysisCache, runs, analysed>>
    /\ UNCHANGED notRel

NextRel ==
    \/ \E r \in Runs : Analysis(r)
    \/ \E c \in Characters : \E form \in CharacterForms(c) : CharacterEdit(c, form)
    \/ \E e \in EventIds : \E form \in EventForms(e) : EventEdit(e, form)
    \/ \E with_id \in BOOLEAN : \E strength \in UserStrengths :
           ManageSave(with_id, "enemy", strength)
    \/ ManageDelete

InitRelIdle ==
    /\ chars = [c \in Characters |-> CHOOSE form \in NewCharacters(c) : form.traits = <<>>]
    /\ story = [e \in EventIds |-> NewEvent]
    /\ summaryCache = <<>>
    /\ analysisCache = <<>>
    /\ relationships = {}
    /\ runs = [r \in Runs |-> IdleRun]
    /\ analysed = NoInputs
    /\ relRequests = 0

\* The characters as character_create left them.
InitRel ==
    /\ chars \in [Characters -> UNION {NewCharacters(c) : c \in Characters}]
    /\ \A c \in Characters : chars[c] \in NewCharacters(c)
    /\ story = [e \in EventIds |-> NewEvent]
    /\ summaryCache = <<>>
    /\ analysisCache = <<>>
    /\ relationships = {}
    /\ runs = [r \in Runs |-> IdleRun]
    /\ analysed = NoInputs
    /\ relRequests = 0

\* ------------------------------------------------------------------------
\* The character pass of the import (run_background_book_import)
\* ------------------------------------------------------------------------
\* A string of the pass is a sequence of words and of the separators "," and
\* " "; the words have no comma and no blank.
LowerWords == {"sam", "mum", "pat", "a", "b"}

Capitalized == [sam |-> "Sam", mum |-> "Mum", pat |-> "Pat", a |-> "A", b |-> "B"]

\* str.lower() on one word or separator
LowerToken(t) ==
    IF \E w \in LowerWords : Capitalized[w] = t
    THEN CHOOSE w \in LowerWords : Capitalized[w] = t
    ELSE t

\* str.lower()
Lower(str) == [k \in DOMAIN str |-> LowerToken(str[k])]

\* str.strip()
Strip(str) ==
    LET RECURSIVE Left(_)
        Left(s) == IF s # <<>> /\ Head(s) = " " THEN Left(Tail(s)) ELSE s
        RECURSIVE Right(_)
        Right(s) == IF s # <<>> /\ s[Len(s)] = " " THEN Right(SubSeq(s, 1, Len(s) - 1)) ELSE s
    IN Right(Left(str))

\* str.split(',')
SplitComma(str) ==
    LET RECURSIVE Split(_)
        Split(s) ==
            IF \E k \in DOMAIN s : s[k] = ","
            THEN LET k == CHOOSE i \in DOMAIN s : s[i] = "," /\ \A j \in 1..(i - 1) : s[j] # ","
                 IN <<SubSeq(s, 1, k - 1)>> \o Split(SubSeq(s, k + 1, Len(s)))
            ELSE <<s>>
    IN Split(str)

\* ', '.join(list)
JoinComma(list) ==
    LET RECURSIVE Join(_)
        Join(k) == IF k = 0 THEN <<>>
                   ELSE IF k = 1 THEN list[1]
                   ELSE Join(k - 1) \o <<",", " ">> \o list[k]
    IN Join(Len(list))

\* sorted(set) of lower-cased words
WordRank == [sam |-> 3, mum |-> 1, pat |-> 2]

SortedStrings(set) ==
    LET RECURSIVE Sorted(_)
        Sorted(S) == IF S = {} THEN <<>>
                     ELSE LET first == CHOOSE s \in S :
                                  \A t \in S : WordRank[s[1]] <= WordRank[t[1]]
                          IN <<first>> \o Sorted(S \ {first})
    IN Sorted(set)

\* The aliases of a row, stripped and lower-cased:
\* a.strip().lower() for a in (aliases or '').split(',') if a.strip()
AliasesOf(aliases) ==
    {Lower(Strip(a)) : a \in {b \in Range(SplitComma(aliases)) : Strip(b) # <<>>}}

\* The keys under which the loop over the existing characters registers a row.
KeysOf(row) ==
    {Lower(row.name)}
        \cup (IF row.nickname # <<>> THEN {Lower(row.nickname)} ELSE {})
        \cup (IF row.aliases # <<>> THEN AliasesOf(row.aliases) ELSE {})

\* char_map after the loop over Character.objects.filter(user=user): a later
\* row takes the key of an earlier one.
ExistingMap(rows) ==
    LET RECURSIVE Map(_)
        Map(n) == IF n = 0 THEN <<>>
                  ELSE [key \in KeysOf(rows[n]) |-> n] @@ Map(n - 1)
    IN Map(Len(rows))

\* existing = char_map.get(name.lower()), and without it the first alias of
\* the AI that char_map.get(ai_alias.lower().strip()) finds; 0 stands for None.
Existing(char_map, char_info) ==
    IF Lower(char_info.name) \in DOMAIN char_map
    THEN char_map[Lower(char_info.name)]
    ELSE LET found == {k \in DOMAIN char_info.aliases :
                          Strip(Lower(char_info.aliases[k])) \in DOMAIN char_map}
         IN IF found = {} THEN 0
            ELSE char_map[Strip(Lower(char_info.aliases[CHOOSE k \in found : \A j \in found : k <= j]))]

\* Merge new aliases into existing ones.
MergedAliases(row, ai_aliases) ==
    LET current_aliases ==
            (AliasesOf(row.aliases) \cup {Lower(Strip(a)) : a \in Range(ai_aliases)})
                \ {Lower(row.name)}
    IN IF ai_aliases # <<>> /\ current_aliases # {}
       THEN JoinComma(SortedStrings(current_aliases))
       ELSE row.aliases

\* The characters the user has before the import: name, nickname, aliases.
ExistingCharacters ==
    {<<>>,
     <<[name |-> <<"Sam">>, nickname |-> <<>>, aliases |-> <<>>]>>,
     <<[name |-> <<"Sam">>, nickname |-> <<>>, aliases |-> <<"Mum", ",", " ", "Pat">>]>>,
     <<[name |-> <<"Pat">>, nickname |-> <<"Sam">>, aliases |-> <<>>]>>}

\* The characters the AI reports: a name, possibly empty, and a list of aliases.
AiNames == {<<>>, <<"Sam">>, <<"sam">>, <<"Mum">>}

AiAliasLists == {<<>>, <<<<"Mum">>>>, <<<<" ", "mum">>, <<"Pat">>>>}

AiCharacters == [name : AiNames, aliases : AiAliasLists]

NoPass == [pc |-> "idle", char_data |-> <<>>, char_map |-> <<>>, idx |-> 0, created |-> {}]

\* char_data arrives and char_map is filled from the characters of the user.
CharPassStart ==
    /\ charPass.pc = "idle"
    /\ \E char_data \in SeqsUpTo(AiCharacters, MaxAiCharacters) :
         charPass' = [NoPass EXCEPT !.pc = "loop", !.char_data = char_data,
                                    !.char_map = ExistingMap(characters), !.idx = 1]
    /\ UNCHANGED characters
    /\ UNCHANGED notCharPass

\* One char_info of the loop: skipped without a name, merged into the
\* character char_map finds, created otherwise.
CharPassEntry ==
    /\ charPass.pc = "loop"
    /\ charPass.idx <= Len(charPass.char_data)
    /\ LET char_info == charPass.char_data[charPass.idx]
           name == char_info.name
           ai_aliases == char_info.aliases
           existing == Existing(charPass.char_map, char_info)
           next == [charPass EXCEPT !.idx = @ + 1]
           created == Len(characters) + 1
       IN IF name = <<>>
          THEN /\ charPass' = next
               /\ UNCHANGED characters
          ELSE IF existing # 0
          THEN /\ characters' = [characters EXCEPT ![existing].aliases =
                                    MergedAliases(characters[existing], ai_aliases)]
               /\ charPass' = [next EXCEPT !.char_map =
                                  [key \in {Lower(name)} |-> existing] @@ @]
          ELSE /\ characters' = Append(characters,
                      [name |-> name, nickname |-> <<>>, aliases |-> JoinComma(ai_aliases)])
               /\ charPass' = [next EXCEPT
                      !.char_map = [key \in {Lower(name)}
                                       \cup {Lower(Strip(a)) : a \in Range(ai_aliases)}
                                     |-> created] @@ @,
                      !.created = @ \cup {created}]
    /\ UNCHANGED notCharPass

CharPassEnd ==
    /\ charPass.pc = "loop"
    /\ charPass.idx > Len(charPass.char_data)
    /\ charPass' = [charPass EXCEPT !.pc = "done"]
    /\ UNCHANGED characters
    /\ UNCHANGED notCharPass

NextCharPass == CharPassStart \/ CharPassEntry \/ CharPassEnd

InitCharPassIdle ==
    /\ characters = <<>>
    /\ charPass = NoPass

InitCharPass ==
    /\ characters \in ExistingCharacters
    /\ charPass = NoPass

\* ------------------------------------------------------------------------
\* ContextResolver (timeline/utils/ai_context.py): scan_text
\* ------------------------------------------------------------------------
MaxScanText == 3

MaxScanCharacters == 2

\* the characters of a text: letters and the space
ScanAlphabet == {"a", "A", "b", " "}

\* \w of the regular expression
WordChar(c) == c \in {"a", "A", "b"}

ScanNames == {<<"a">>, <<"b">>, <<"a", "b">>, <<"A", " ", "b">>}

ScanNicknames == {<<>>, <<"a">>}

ScanAliases == {<<>>, <<"b", ",", " ", "A">>}

ScanTitles == {<<"b">>}

\* binary collation of two characters
CharRank == [c \in ScanAlphabet |-> CASE c = " " -> 0 [] c = "A" -> 1 [] c = "a" -> 2 [] c = "b" -> 3]

\* the order of two names under ordering = ['name']
NameLeq(x, y) ==
    LET RECURSIVE Leq(_, _)
        Leq(s, t) ==
            IF s = <<>> THEN TRUE
            ELSE IF t = <<>> THEN FALSE
            ELSE IF Head(s) # Head(t) THEN CharRank[Head(s)] < CharRank[Head(t)]
            ELSE Leq(Tail(s), Tail(t))
    IN Leq(x, y)

\* Character.objects.filter(user=self.user): the rows in the order of Meta.ordering
ScanCharacters ==
    {rows \in SeqsUpTo([pk : 1..MaxScanCharacters, name : ScanNames,
                        nickname : ScanNicknames, aliases : ScanAliases], MaxScanCharacters) :
        /\ \A i, j \in DOMAIN rows : i # j => rows[i].pk # rows[j].pk
        /\ \A i \in DOMAIN rows : rows[i].pk <= Len(rows)
        /\ \A i \in 1..(Len(rows) - 1) : NameLeq(rows[i].name, rows[i + 1].name)}

\* WorldEntry.objects.filter(user=self.user)
ScanWorld == SeqsUpTo([pk : {1}, title : ScanTitles], 1)

\* str.split()
SplitWhitespace(str) ==
    LET RECURSIVE Split(_, _)
        Split(s, word) ==
            IF s = <<>> THEN (IF word = <<>> THEN <<>> ELSE <<word>>)
            ELSE IF Head(s) = " "
                 THEN (IF word = <<>> THEN <<>> ELSE <<word>>) \o Split(Tail(s), <<>>)
                 ELSE Split(Tail(s), Append(word, Head(s)))
    IN Split(str, <<>>)

\* mapping[key] = value
Put(mapping, key, value) ==
    [k \in DOMAIN mapping \cup {key} |-> IF k = key THEN value ELSE mapping[k]]

CharacterObject(row) == [kind |-> "character", pk |-> row.pk]

WorldObject(row) == [kind |-> "world", pk |-> row.pk]

\* the keys of one character, in the order the loop body writes them
WithName(mapping, char) == Put(mapping, Lower(char.name), CharacterObject(char))

WithFirstName(mapping, char) ==
    LET name_parts == SplitWhitespace(char.name)
    IN IF Len(name_parts) > 1 /\ Lower(name_parts[1]) \notin DOMAIN mapping
       THEN Put(mapping, Lower(name_parts[1]), CharacterObject(char))
       ELSE mapping

WithAliases(mapping, char) ==
    LET list == SplitComma(char.aliases)
        RECURSIVE Each(_, _)
        Each(m, k) ==
            IF k > Len(list) THEN m
            ELSE LET alias == Lower(Strip(list[k]))
                 IN Each(IF alias # <<>> THEN Put(m, alias, CharacterObject(char)) ELSE m, k + 1)
    IN IF char.aliases # <<>> THEN Each(mapping, 1) ELSE mapping

WithNickname(mapping, char) ==
    IF char.nickname # <<>>
    THEN Put(mapping, Lower(char.nickname), CharacterObject(char))
    ELSE mapping

_build_character_map(rows) ==
    LET RECURSIVE Build(_, _)
        Build(mapping, k) ==
            IF k > Len(rows) THEN mapping
            ELSE Build(WithNickname(WithAliases(WithFirstName(WithName(mapping, rows[k]),
                                                              rows[k]), rows[k]), rows[k]),
                       k + 1)
    IN Build(<<>>, 1)

_build_world_map(rows) ==
    LET RECURSIVE Build(_, _)
        Build(mapping, k) ==
            IF k > Len(rows) THEN mapping
            ELSE Build(Put(mapping, Lower(rows[k].title), WorldObject(rows[k])), k + 1)
    IN Build(<<>>, 1)

\* \b at the position after the first p characters of str
WordBoundary(str, p) ==
    (p >= 1 /\ WordChar(str[p])) # (p < Len(str) /\ WordChar(str[p + 1]))

\* re.search(r'\b' + re.escape(name) + r'\b', str)
SearchWord(name, str) ==
    \E i \in 1..(Len(str) - Len(name) + 1) :
        /\ SubSeq(str, i, i + Len(name) - 1) = name
        /\ WordBoundary(str, i - 1)
        /\ WordBoundary(str, i + Len(name) - 1)

\* the set found_objects of scan_text
found_objects(char_map, world_map, text) ==
    LET text_lower == Lower(text)
    IN {char_map[name] : name \in {n \in DOMAIN char_map : SearchWord(n, text_lower)}}
       \cup {world_map[title] : title \in {t \in DOMAIN world_map : SearchWord(t, text_lower)}}

\* list(set): the objects of the set in some order
ListsOf(set) ==
    {list \in SeqsUpTo(set, Cardinality(set)) :
        Len(list) = Cardinality(set) /\ Range(list) = set}

NoScan == [pc |-> "idle", rows |-> <<>>, world |-> <<>>, text |-> <<>>, result |-> <<>>]

scan_text ==
    /\ scan.pc = "ready"
    /\ \E list \in (IF scan.text = <<>> THEN {<<>>}
                    ELSE ListsOf(found_objects(_build_character_map(scan.rows),
                                               _build_world_map(scan.world), scan.text))) :
           scan' = [scan EXCEPT !.pc = "done", !.result = list]
    /\ UNCHANGED notScan

InitScanIdle == scan = NoScan

InitScan ==
    \E rows \in ScanCharacters, world \in ScanWorld, text \in SeqsUpTo(ScanAlphabet, MaxScanText) :
        scan = [pc |-> "ready", rows |-> rows, world |-> world, text |-> text, result |-> <<>>]

\* ------------------------------------------------------------------------
\* api_trigger_deep_scan and run_deep_scan (views.py 2251-2394), one book
\* ------------------------------------------------------------------------
MaxTriggers == 2

\* the requests; the thread a request starts carries its number
Triggers == 1..MaxTriggers

\* the row get_or_create inserts.  The class StoryScanStatus is not in
\* timeline/models.py as given: its columns are those the view writes, and
\* updated_at is taken to be set by every save.
CreatedStatus ==
    [exists |-> TRUE, status |-> "pending", progress_percentage |-> 0, error_message |-> "",
     fresh |-> TRUE]

NoStatus ==
    [exists |-> FALSE, status |-> "none", progress_percentage |-> 0, error_message |-> "",
     fresh |-> FALSE]

\* scan_status.save(): every column from the instance, updated_at is now
SavedStatus(mem) ==
    [exists |-> TRUE, status |-> mem.status, progress_percentage |-> mem.progress_percentage,
     error_message |-> mem.error_message, fresh |-> TRUE]

\* mem is the instance a request or a thread holds; it is gone on return
NoTrigger == [pc |-> "idle", reply |-> "none", mem |-> NoStatus]

NoThread == [pc |-> "none", mem |-> NoStatus]

NeverInProgress(row, created) == FALSE

\* 2264-2266: the scan counts as in progress
InProgress(row, created) == ~created /\ row.status = "running" /\ row.fresh

\* 2262-2267: get_or_create and the check
TriggerCheck(r) ==
    /\ triggers[r].pc = "idle"
    /\ LET created == ~scan_status.exists
           row == IF created THEN CreatedStatus ELSE scan_status
       IN IF InProgress(row, created)
          THEN /\ triggers' = [triggers EXCEPT ![r] = [@ EXCEPT !.pc = "done", !.reply = "in_progress"]]
               /\ scan_status' = scan_status
          ELSE /\ triggers' = [triggers EXCEPT ![r] = [@ EXCEPT !.pc = "reset", !.mem = row]]
               /\ scan_status' = row
    /\ UNCHANGED <<scans, book_caches>>
    /\ UNCHANGED notDeep

\* 2269-2273
TriggerReset(r) ==
    /\ triggers[r].pc = "reset"
    /\ LET mem == [triggers[r].mem EXCEPT !.status = "running", !.progress_percentage = 0,
                                          !.error_message = ""]
       IN /\ scan_status' = SavedStatus(mem)
          /\ triggers' = [triggers EXCEPT ![r] = [@ EXCEPT !.pc = "clear", !.mem = mem]]
    /\ UNCHANGED <<scans, book_caches>>
    /\ UNCHANGED notDeep

\* 2276-2278 and 2390-2394: the caches of the book are cleared, the thread
\* is started and the reply is sent
TriggerStart(r) ==
    /\ triggers[r].pc = "clear"
    /\ book_caches' = FALSE
    /\ scans' = [scans EXCEPT ![r] = [@ EXCEPT !.pc = "load"]]
    /\ triggers' = [triggers EXCEPT ![r] = [pc |-> "done", reply |-> "started", mem |-> NoStatus]]
    /\ UNCHANGED scan_status
    /\ UNCHANGED notDeep

\* the thread has returned, from the body or from its handler
Over(r) == scans[r].pc \in {"done", "handled"}

\* the thread is between its start and its last write
Active(r) == scans[r].pc \in {"load", "profiles", "relationships", "finish", "save"}

\* 2282-2284
DeepScanLoad(r) ==
    /\ scans[r].pc = "load"
    /\ scans' = [scans EXCEPT ![r] = [pc |-> "profiles", mem |-> scan_status]]
    /\ UNCHANGED <<scan_status, triggers, book_caches>>
    /\ UNCHANGED notDeep

\* 2286-2312: the profiles of the characters, progress 5 to 20
DeepScanProfiles(r) ==
    /\ scans[r].pc = "profiles"
    /\ LET mem == [scans[r].mem EXCEPT !.progress_percentage = 20]
       IN /\ scan_status' = SavedStatus(mem)
          /\ scans' = [scans EXCEPT ![r] = [pc |-> "relationships", mem |-> mem]]
    /\ UNCHANGED <<triggers, book_caches>>
    /\ UNCHANGED notDeep

\* 2346-2357: the relationship caches of the pairs, progress 20 to 90
DeepScanRelationships(r) ==
    /\ scans[r].pc = "relationships"
    /\ LET mem == [scans[r].mem EXCEPT !.progress_percentage = 90]
       IN /\ scan_status' = SavedStatus(mem)
          /\ scans' = [scans EXCEPT ![r] = [pc |-> "finish", mem |-> mem]]
    /\ book_caches' = TRUE
    /\ UNCHANGED triggers
    /\ UNCHANGED notDeep

\* 2376-2379: the instance of the thread is completed in memory
DeepScanFinish(r) ==
    /\ scans[r].pc = "finish"
    /\ scans' = [scans EXCEPT ![r] = [pc |-> "save",
                                      mem |-> [scans[r].mem EXCEPT !.status = "completed",
                                                                   !.progress_percentage = 100]]]
    /\ UNCHANGED <<scan_status, triggers, book_caches>>
    /\ UNCHANGED notDeep

\* 2380-2381: book.save(), then scan_status.save()
DeepScanSave(r) ==
    /\ scans[r].pc = "save"
    /\ scan_status' = SavedStatus(scans[r].mem)
    /\ scans' = [scans EXCEPT ![r] = [pc |-> "done", mem |-> NoStatus]]
    /\ UNCHANGED <<triggers, book_caches>>
    /\ UNCHANGED notDeep

\* str(e) of the exception of the body
exception_text == "exception"

FailedStatusKept(row, e) == row

\* 2386-2387
FailedStatus(row, e) == [row EXCEPT !.status = "failed", !.error_message = e]

\* 2384-2388: any exception of the body; the row is loaded again
DeepScanExcept(r) ==
    /\ Active(r)
    /\ LET mem == FailedStatus(scan_status, exception_text)
       IN /\ scan_status' = SavedStatus(mem)
          /\ scans' = [scans EXCEPT ![r] = [pc |-> "handled", mem |-> NoStatus]]
    /\ UNCHANGED <<triggers, book_caches>>
    /\ UNCHANGED notDeep

\* five minutes pass without a save of the row
FiveMinutes ==
    /\ scan_status.exists
    /\ scan_status.fresh
    /\ scan_status' = [scan_status EXCEPT !.fresh = FALSE]
    /\ UNCHANGED <<triggers, scans, book_caches>>
    /\ UNCHANGED notDeep

\* 2280-2388: a step of the thread of request r
run_deep_scan(r) ==
    \/ DeepScanLoad(r)
    \/ DeepScanProfiles(r)
    \/ DeepScanRelationships(r)
    \/ DeepScanFinish(r)
    \/ DeepScanSave(r)
    \/ DeepScanExcept(r)

NextDeep ==
    \/ \E r \in Triggers :
         \/ TriggerCheck(r)
         \/ TriggerReset(r)
         \/ TriggerStart(r)
         \/ run_deep_scan(r)
    \/ FiveMinutes

InitDeepIdle ==
    /\ scan_status = NoStatus
    /\ triggers = [r \in Triggers |-> NoTrigger]
    /\ scans = [r \in Triggers |-> NoThread]
    /\ book_caches = TRUE

\* no scan yet, or an earlier scan that has ended
InitDeep ==
    /\ scan_status \in {NoStatus}
                       \cup {[exists |-> TRUE, status |-> "completed", progress_percentage |-> 100,
                              error_message |-> "", fresh |-> FALSE],
                             [exists |-> TRUE, status |-> "failed", progress_percentage |-> 100,
                              error_message |-> exception_text, fresh |-> FALSE]}
    /\ triggers = [r \in Triggers |-> NoTrigger]
    /\ scans = [r \in Triggers |-> NoThread]
    /\ book_caches \in BOOLEAN

\* ------------------------------------------------------------------------
\* strength and trust_level of the relationship of one pair: the form views,
\* api_manage_relationship and the mirror of the analysis
\* ------------------------------------------------------------------------
MaxPairRequests == 3

\* the numbers a JSON body or an answer of the AI can carry
StrengthInputs == {0, 1, 10, 11}

\* validators=[MinValueValidator(1), MaxValueValidator(10)]
Validated(n) == n >= 1 /\ n <= 10

\* relationship_create and relationship_edit: form.is_valid() runs the
\* validators of strength; trust_level is no field of the form.
FormSaved(table, strength) ==
    IF ~Validated(strength) THEN table
    ELSE IF RelRows(table) = {}
         THEN table \cup {[character_a |-> "a", character_b |-> "b",
                           relationship_type |-> "friend", strength |-> strength,
                           trust_level |-> default_trust_level]}
         ELSE {[rel EXCEPT !.strength = strength] : rel \in table}

RelationshipForm(strength) ==
    /\ pairRequests < MaxPairRequests
    /\ pairRequests' = pairRequests + 1
    /\ pair' = FormSaved(pair, strength)
    /\ UNCHANGED notStrength

\* api_manage_relationship, action 'save': int() of the body and the write
ManagePair(with_id, strength, trust) ==
    /\ pairRequests < MaxPairRequests
    /\ pairRequests' = pairRequests + 1
    /\ with_id => RelRows(pair) # {}
    /\ pair' = ManagedTable(pair, with_id, "enemy", strength, trust)
    /\ UNCHANGED notStrength

\* _perform_relationship_analysis: the mirror of a truthy answer
MirrorPair(ai_response) ==
    /\ pairRequests < MaxPairRequests
    /\ pairRequests' = pairRequests + 1
    /\ pair' = Mirrored(pair, ai_response)
    /\ UNCHANGED notStrength

NextStrength ==
    \/ \E strength \in StrengthInputs : RelationshipForm(strength)
    \/ \E with_id \in BOOLEAN, strength, trust \in StrengthInputs :
           ManagePair(with_id, strength, trust)
    \/ \E ai_response \in [type : {"ally"}, strength : StrengthInputs]
                          \cup [type : {"ally"}, strength : StrengthInputs,
                                trust_level : StrengthInputs] :
           MirrorPair(ai_response)

InitStrengthIdle ==
    /\ pair = {}
    /\ pairRequests = 0

\* no relationship yet, or one the form has saved
InitStrength ==
    /\ pair \in {{}, FormSaved({}, default_strength)}
    /\ pairRequests = 0

\* ------------------------------------------------------------------------
\* The AI enrichment of an existing character: api_sync_character_data
\* (views.py 1694-1778) and the character pass of the import (411-425)
\* ------------------------------------------------------------------------
MaxSyncs == 2

\* the sparse fields, in the order the code tests them
SparseFields == <<"description", "motivation", "goals", "traits">>

\* what the AI answers for one character: a field is absent, empty or filled
AiProfiles ==
    UNION {[fields -> {"", "ai"}] : fields \in SUBSET Range(SparseFields)}

FillsAlways(value, answer) == answer # ""

\* if not character.<field> and match.get('<field>'):
Fills(value, answer) == value = "" /\ answer # ""

\* the fields the four tests fill, in their order
FilledFields(row, match) ==
    LET RECURSIVE Each(_)
        Each(k) ==
            IF k > Len(SparseFields) THEN <<>>
            ELSE LET field == SparseFields[k]
                 IN (IF Fills(row[field], Get(match, field, ""))
                     THEN <<field>> ELSE <<>>) \o Each(k + 1)
    IN Each(1)

\* the instance after the assignments
Enriched(row, match) ==
    [field \in DOMAIN row |->
        IF field \in Range(FilledFields(row, match)) THEN match[field] ELSE row[field]]

NoSync == [reply |-> "none", updated_fields |-> <<>>, saved |-> FALSE, count |-> 0]

\* 1743-1775: after a truthy answer of analyze_single_character_with_ai
api_sync_character_data(match) ==
    /\ sync.count < MaxSyncs
    /\ LET updated_fields == FilledFields(profile, match)
       IN /\ profile' = IF updated_fields # <<>> THEN Enriched(profile, match) ELSE profile
          /\ sync' = [reply |-> "success", updated_fields |-> updated_fields,
                      saved |-> updated_fields # <<>>, count |-> sync.count + 1]
    /\ UNCHANGED notSync

\* 1722-1741: no context or no answer of the AI
SyncError ==
    /\ sync.count < MaxSyncs
    /\ sync' = [reply |-> "error", updated_fields |-> <<>>, saved |-> FALSE,
                count |-> sync.count + 1]
    /\ UNCHANGED profile
    /\ UNCHANGED notSync

\* 411-448: an entry of the import that matches the character; the save
\* follows when a field, the introduction book or the aliases changed
ImportEnrich(char_info) ==
    /\ sync.count < MaxSyncs
    /\ profile' = Enriched(profile, char_info)
    /\ sync' = [reply |-> "none", updated_fields |-> <<>>,
                saved |-> FilledFields(profile, char_info) # <<>>, count |-> sync.count + 1]
    /\ UNCHANGED notSync

NextSync ==
    \/ \E match \in AiProfiles : api_sync_character_data(match)
    \/ SyncError
    \/ \E char_info \in AiProfiles : ImportEnrich(char_info)

InitSyncIdle ==
    /\ profile = [field \in Range(SparseFields) |-> ""]
    /\ sync = NoSync

\* a character as the user has written it
InitSync ==
    /\ profile \in [Range(SparseFields) -> {"", "user"}]
    /\ sync = NoSync

\* ------------------------------------------------------------------------
\* Book.current_word_count under event_create, event_edit and event_delete
\* (models.py 56-62 and 443-451, views.py 1434-1489)
\* ------------------------------------------------------------------------
MaxEventRequests == 3

WordBooks == {"first", "second"}

WordEvents == {1, 2}

\* the book and the word_count the form posts; "none" is no book
EventPosts == [book : WordBooks \cup {"none"}, word_count : {0, 1, 2}]

\* self.events.aggregate(Sum('word_count'))['word_count__sum'] or 0
SumWordCount(table, b) ==
    LET RECURSIVE Sum(_)
        Sum(set) ==
            IF set = {} THEN 0
            ELSE LET e == CHOOSE x \in set : TRUE
                 IN table[e].word_count + Sum(set \ {e})
    IN Sum({e \in DOMAIN table : table[e].book = b})

\* Book.update_word_count of the book of the saved event
update_word_count(counts, table, b) ==
    IF b = "none" THEN counts
    ELSE [counts EXCEPT ![b] = SumWordCount(table, b)]

\* Event.save(): the row, then the count of the book the event has now
EventSave(e, post) ==
    /\ word_events' = [x \in DOMAIN word_events \cup {e} |->
                          IF x = e THEN post ELSE word_events[x]]
    /\ current_word_count' = update_word_count(current_word_count, word_events', post.book)

event_create(e, post) ==
    /\ event_requests < MaxEventRequests
    /\ e \notin DOMAIN word_events
    /\ EventSave(e, post)
    /\ event_requests' = event_requests + 1
    /\ UNCHANGED notWords

event_edit(e, post) ==
    /\ event_requests < MaxEventRequests
    /\ e \in DOMAIN word_events
    /\ EventSave(e, post)
    /\ event_requests' = event_requests + 1
    /\ UNCHANGED notWords

\* event.delete(): the row goes, no count is written
event_delete(e) ==
    /\ event_requests < MaxEventRequests
    /\ e \in DOMAIN word_events
    /\ word_events' = [x \in DOMAIN word_events \ {e} |-> word_events[x]]
    /\ event_requests' = event_requests + 1
    /\ UNCHANGED current_word_count
    /\ UNCHANGED notWords

NextWords ==
    \E e \in WordEvents :
        \/ \E post \in EventPosts : event_create(e, post)
        \/ \E post \in EventPosts : event_edit(e, post)
        \/ event_delete(e)

InitWordsIdle ==
    /\ word_events = <<>>
    /\ current_word_count = [b \in WordBooks |-> 0]
    /\ event_requests = 0

\* ------------------------------------------------------------------------
\* Event.get_absolute_date (models.py 453-485)
\* ------------------------------------------------------------------------
MaxDateEvents == 3

DateEvents == 1..MaxDateEvents

\* the recursion limit of the interpreter (1000 frames by default); here one
\* frame more than the longest chain of references without a cycle
recursion_limit == MaxDateEvents + 1

\* the columns get_absolute_date reads: date is a day or None,
\* relative_to_event an event or 0 for NULL, relative_days a number or None
DatedEvents ==
    [date_type : {"exact"}, date : {None, [day |-> 10]},
     relative_to_event : {0}, relative_days : {None}]
    \cup [date_type : {"relative"}, date : {None},
          relative_to_event : {0} \cup DateEvents, relative_days : {None, [days |-> 1]}]

\* base_date + timedelta(days=self.relative_days), or None
RelativeDate(event, base_date) ==
    IF base_date # None /\ event.relative_days # None
    THEN [day |-> base_date.day + event.relative_days.days]
    ELSE None

NoResolve == [pc |-> "idle", event |-> 0, stack |-> <<>>, value |-> None, raised |-> FALSE]

\* one frame of get_absolute_date: the event on top of the stack returns, or
\* calls get_absolute_date of the event it is relative to
DateFrame ==
    /\ resolve.pc = "call"
    /\ LET id == resolve.stack[Len(resolve.stack)]
           self == dated[id]
       IN IF self.date_type = "exact"
          THEN resolve' = [resolve EXCEPT !.pc = "return", !.value = self.date]
          ELSE IF self.relative_to_event = 0 \/ self.relative_to_event = id
          THEN resolve' = [resolve EXCEPT !.pc = "return", !.value = None]
          ELSE IF Len(resolve.stack) >= recursion_limit
          THEN resolve' = [resolve EXCEPT !.pc = "done", !.raised = TRUE]
          ELSE resolve' = [resolve EXCEPT !.stack = Append(@, self.relative_to_event)]
    /\ UNCHANGED dated
    /\ UNCHANGED notDates

\* the return of a frame to its caller, or to the caller of the method
DateReturn ==
    /\ resolve.pc = "return"
    /\ LET rest == SubSeq(resolve.stack, 1, Len(resolve.stack) - 1)
       IN IF rest = <<>>
          THEN resolve' = [resolve EXCEPT !.pc = "done", !.stack = rest]
          ELSE resolve' = [resolve EXCEPT
                              !.stack = rest,
                              !.value = RelativeDate(dated[rest[Len(rest)]], resolve.value)]
    /\ UNCHANGED dated
    /\ UNCHANGED notDates

get_absolute_date == DateFrame \/ DateReturn

InitDatesIdle ==
    /\ dated = [e \in DateEvents |-> [date_type |-> "exact", date |-> None,
                                      relative_to_event |-> 0, relative_days |-> None]]
    /\ resolve = NoResolve

\* every configuration of the events, and the event the method is called on
InitDates ==
    /\ dated \in [DateEvents -> DatedEvents]
    /\ \E e \in DateEvents : resolve = [NoResolve EXCEPT !.pc = "call", !.event = e, !.stack = <<e>>]

\* ------------------------------------------------------------------------
\* The rows of two users: the lookups of the views by id (book_detail,
\* api_event_reorder, the relationship and tag views,
\* api_manage_relationship, api_suggest_relationship) and the activity log
\* of signals.py
\* ------------------------------------------------------------------------
MaxTenantRequests == 3

Users == {"U", "V"}

CharacterIds == 1..4

\* Character.user: two characters of each user
CharacterUser(c) == IF c <= 2 THEN "U" ELSE "V"

BookIds == 1..2

\* Book.user
BookUser(b) == IF b = 1 THEN "U" ELSE "V"

OwnedEventIds == 1..2

\* Event.user; the event is in the book of its user
EventUser(e) == BookUser(e)

\* the ids a request can name for a relationship or a tag
RowIds == 1..MaxTenantRequests

\* character_a and character_b of a request: the two of U, the two of V,
\* one of each
PairInputs == {<<1, 2>>, <<3, 4>>, <<1, 3>>}

\* a row as a page or an answer shows it, with the user it belongs to
Object(model, id, user) == [model |-> model, id |-> id, user |-> user]

\* signals.py 5-10 and 40-44: the senders the receivers are connected to
PostSaveSenders == {"Book", "Chapter", "Character", "Event", "Tag", "CharacterRelationship"}

PostDeleteSenders == {"Book", "Chapter", "Character", "Event", "Tag"}

\* signals.py 11-38.  named is what object_name shows: the title or the name
\* of the row, for a relationship the names of its two characters
\* (models.py 609-610).
log_save_activity(log, sender, user, created, named) ==
    IF sender \in PostSaveSenders
    THEN Append(log, [user |-> user, action |-> IF created THEN "create" ELSE "update",
                      model_name |-> sender, object_name |-> named])
    ELSE log

\* signals.py 45-67
log_delete_activity(log, sender, user, named) ==
    IF sender \in PostDeleteSenders
    THEN Append(log, [user |-> user, action |-> "delete", model_name |-> sender,
                      object_name |-> named])
    ELSE log

\* str(rel) names character_a and character_b
RelationshipNamed(a, b) ==
    {Object("Character", a, CharacterUser(a)), Object("Character", b, CharacterUser(b))}

Response(u, status, objects) == [user |-> u, status |-> status, objects |-> objects]

NoResponse == Response("none", "none", {})

\* unique_together of CharacterRelationship (models.py 606-607), apart from
\* the row with the id except
PairTaken(rows, a, b, except) ==
    \E r \in rows : r.character_a = a /\ r.character_b = b /\ r.id # except

\* the request is counted; its number is the id of a row it inserts
TenantRequest ==
    /\ tenant_requests < MaxTenantRequests
    /\ tenant_requests' = tenant_requests + 1

\* book_detail (views.py 268-280)
book_detail(u, pk) ==
    /\ TenantRequest
    /\ response' = IF BookUser(pk) = u
                THEN Response(u, "200",
                              {Object("Book", pk, BookUser(pk)), Object("Event", pk, EventUser(pk))})
                ELSE Response(u, "404", {})
    /\ UNCHANGED <<rel_rows, event_order, tags, activity>>
    /\ UNCHANGED notTenant

\* api_event_reorder (views.py 1564-1579); Event.save() (models.py 443-451)
\* saves the event and then the word count of its book
api_event_reorder(u, event_id, new_order) ==
    /\ TenantRequest
    /\ IF EventUser(event_id) = u
       THEN /\ event_order' = [event_order EXCEPT ![event_id] = new_order]
            /\ activity' = log_save_activity(
                              log_save_activity(activity, "Event", u, FALSE,
                                                {Object("Event", event_id, u)}),
                              "Book", u, FALSE, {Object("Book", event_id, u)})
            /\ response' = Response(u, "success", {})
       ELSE /\ response' = Response(u, "400", {})
            /\ UNCHANGED <<event_order, activity>>
    /\ UNCHANGED <<rel_rows, tags>>
    /\ UNCHANGED notTenant

\* CharacterRelationshipForm (forms.py 210-238): the characters are chosen
\* among those of the user, and the pair must be free
RelationshipFormValid(u, a, b, except) ==
    /\ CharacterUser(a) = u
    /\ CharacterUser(b) = u
    /\ ~PairTaken(rel_rows, a, b, except)

\* relationship_create (views.py 681-693)
relationship_create(u, a, b) ==
    /\ TenantRequest
    /\ IF RelationshipFormValid(u, a, b, 0)
       THEN /\ rel_rows' = rel_rows \cup {[id |-> tenant_requests + 1, user |-> u,
                                           character_a |-> a, character_b |-> b]}
            /\ activity' = log_save_activity(activity, "CharacterRelationship", u, TRUE,
                                             RelationshipNamed(a, b))
            /\ response' = Response(u, "302", {})
       ELSE /\ response' = Response(u, "invalid", {})
            /\ UNCHANGED <<rel_rows, activity>>
    /\ UNCHANGED <<event_order, tags>>
    /\ UNCHANGED notTenant

\* relationship_edit (views.py 696-708)
relationship_edit(u, pk, a, b) ==
    /\ TenantRequest
    /\ IF \E r \in rel_rows : r.id = pk /\ r.user = u
       THEN LET rel == CHOOSE r \in rel_rows : r.id = pk
            IN IF RelationshipFormValid(u, a, b, pk)
               THEN /\ rel_rows' = (rel_rows \ {rel})
                                      \cup {[rel EXCEPT !.character_a = a, !.character_b = b]}
                    /\ activity' = log_save_activity(activity, "CharacterRelationship", u, FALSE,
                                                     RelationshipNamed(a, b))
                    /\ response' = Response(u, "302", {})
               ELSE /\ response' = Response(u, "invalid", RelationshipNamed(rel.character_a,
                                                                       rel.character_b))
                    /\ UNCHANGED <<rel_rows, activity>>
       ELSE /\ response' = Response(u, "404", {})
            /\ UNCHANGED <<rel_rows, activity>>
    /\ UNCHANGED <<event_order, tags>>
    /\ UNCHANGED notTenant

\* rel.delete() of the row the lookup with user = request.user has found
\* (views.py 711-719 and 2006-2009); a lookup that finds none is a 404
DeleteOwnRelationship(u, pk) ==
    IF \E r \in rel_rows : r.id = pk /\ r.user = u
    THEN LET rel == CHOOSE r \in rel_rows : r.id = pk
         IN /\ rel_rows' = rel_rows \ {rel}
            /\ activity' = log_delete_activity(activity, "CharacterRelationship", u,
                                               RelationshipNamed(rel.character_a,
                                                                 rel.character_b))
            /\ response' = Response(u, "success", {})
    ELSE /\ response' = Response(u, "404", {})
         /\ UNCHANGED <<rel_rows, activity>>

\* relationship_delete (views.py 711-719)
relationship_delete(u, pk) ==
    /\ TenantRequest
    /\ DeleteOwnRelationship(u, pk)
    /\ UNCHANGED <<event_order, tags>>
    /\ UNCHANGED notTenant

\* api_manage_relationship, the definition of views.py 1995-2081 that the
\* route reaches: rel_id 0 is a body without 'id'.  The ids of the two
\* characters are taken from the body as they are; the insert or the update
\* of a pair that another row holds raises IntegrityError, which the handler
\* of 2080 answers.
api_manage_relationship(u, action, rel_id, a, b) ==
    /\ TenantRequest
    /\ IF action = "delete"
       THEN DeleteOwnRelationship(u, rel_id)
       ELSE IF rel_id # 0
            THEN IF \E r \in rel_rows : r.id = rel_id /\ r.user = u
                 THEN LET rel == CHOOSE r \in rel_rows : r.id = rel_id
                      IN IF PairTaken(rel_rows, a, b, rel_id)
                         THEN /\ response' = Response(u, "500", {})
                              /\ UNCHANGED <<rel_rows, activity>>
                         ELSE /\ rel_rows' = (rel_rows \ {rel})
                                                \cup {[rel EXCEPT !.character_a = a,
                                                                  !.character_b = b]}
                              /\ activity' = log_save_activity(activity, "CharacterRelationship",
                                                               u, FALSE, RelationshipNamed(a, b))
                              /\ response' = Response(u, "success", {})
                 ELSE /\ response' = Response(u, "500", {})
                      /\ UNCHANGED <<rel_rows, activity>>
            ELSE IF \E r \in rel_rows : r.user = u /\ r.character_a = a /\ r.character_b = b
                 THEN /\ response' = Response(u, "400", {})
                      /\ UNCHANGED <<rel_rows, activity>>
                 ELSE IF PairTaken(rel_rows, a, b, 0)
                      THEN /\ response' = Response(u, "500", {})
                           /\ UNCHANGED <<rel_rows, activity>>
                      ELSE /\ rel_rows' = rel_rows \cup {[id |-> tenant_requests + 1, user |-> u,
                                                          character_a |-> a, character_b |-> b]}
                           /\ activity' = log_save_activity(activity, "CharacterRelationship",
                                                            u, TRUE, RelationshipNamed(a, b))
                           /\ response' = Response(u, "success", {})
    /\ UNCHANGED <<event_order, tags>>
    /\ UNCHANGED notTenant

\* api_suggest_relationship (views.py 2084-2219) with the mirror of
\* _perform_relationship_analysis (2554-2560): both characters are looked up
\* with user = request.user; get_or_create inserts the row of the pair for
\* char_a.user unless that user has it
api_suggest_relationship(u, a, b) ==
    /\ TenantRequest
    /\ IF CharacterUser(a) = u /\ CharacterUser(b) = u
       THEN IF \E r \in rel_rows : r.user = u /\ r.character_a = a /\ r.character_b = b
            THEN /\ response' = Response(u, "success", RelationshipNamed(a, b))
                 /\ UNCHANGED <<rel_rows, activity>>
            ELSE IF PairTaken(rel_rows, a, b, 0)
                 THEN /\ response' = Response(u, "500", {})
                      /\ UNCHANGED <<rel_rows, activity>>
                 ELSE /\ rel_rows' = rel_rows \cup {[id |-> tenant_requests + 1,
                                                     user |-> CharacterUser(a),
                                                     character_a |-> a, character_b |-> b]}
                      /\ activity' = log_save_activity(activity, "CharacterRelationship",
                                                       CharacterUser(a), TRUE,
                                                       RelationshipNamed(a, b))
                      /\ response' = Response(u, "success", RelationshipNamed(a, b))
       ELSE /\ response' = Response(u, "500", {})
            /\ UNCHANGED <<rel_rows, activity>>
    /\ UNCHANGED <<event_order, tags>>
    /\ UNCHANGED notTenant

\* tag_create (views.py 1519-1532)
tag_create(u) ==
    /\ TenantRequest
    /\ tags' = tags \cup {[id |-> tenant_requests + 1, user |-> u]}
    /\ activity' = log_save_activity(activity, "Tag", u, TRUE,
                                     {Object("Tag", tenant_requests + 1, u)})
    /\ response' = Response(u, "302", {})
    /\ UNCHANGED <<rel_rows, event_order>>
    /\ UNCHANGED notTenant

\* tag_edit (views.py 1535-1547)
tag_edit(u, pk) ==
    /\ TenantRequest
    /\ IF [id |-> pk, user |-> u] \in tags
       THEN /\ activity' = log_save_activity(activity, "Tag", u, FALSE, {Object("Tag", pk, u)})
            /\ response' = Response(u, "302", {})
       ELSE /\ response' = Response(u, "404", {})
            /\ activity' = activity
    /\ UNCHANGED <<rel_rows, event_order, tags>>
    /\ UNCHANGED notTenant

\* tag_delete (views.py 1550-1559)
tag_delete(u, pk) ==
    /\ TenantRequest
    /\ IF [id |-> pk, user |-> u] \in tags
       THEN /\ tags' = tags \ {[id |-> pk, user |-> u]}
            /\ activity' = log_delete_activity(activity, "Tag", u, {Object("Tag", pk, u)})
            /\ response' = Response(u, "302", {})
       ELSE /\ response' = Response(u, "404", {})
            /\ UNCHANGED <<tags, activity>>
    /\ UNCHANGED <<rel_rows, event_order>>
    /\ UNCHANGED notTenant

\* the entries of the log of the user
ActivityOf(u) == SelectSeq(activity, LAMBDA entry : entry.user = u)

\* dashboard (views.py 97): the last five entries of the log of the user
dashboard(u) ==
    /\ TenantRequest
    /\ LET mine == ActivityOf(u)
           recent_activity == SubSeq(mine, IF Len(mine) > 5 THEN Len(mine) - 4 ELSE 1, Len(mine))
       IN response' = Response(u, "200", UNION {recent_activity[k].object_name :
                                            k \in 1..Len(recent_activity)})
    /\ UNCHANGED <<rel_rows, event_order, tags, activity>>
    /\ UNCHANGED notTenant

NextTenant ==
    \E u \in Users :
        \/ \E pk \in BookIds : book_detail(u, pk)
        \/ \E e \in OwnedEventIds, new_order \in 1..2 : api_event_reorder(u, e, new_order)
        \/ \E p \in PairInputs : relationship_create(u, p[1], p[2])
        \/ \E pk \in RowIds, p \in PairInputs : relationship_edit(u, pk, p[1], p[2])
        \/ \E pk \in RowIds : relationship_delete(u, pk)
        \/ \E action \in {"save", "delete"}, rel_id \in {0} \cup RowIds, p \in PairInputs :
              api_manage_relationship(u, action, rel_id, p[1], p[2])
        \/ \E p \in PairInputs : api_suggest_relationship(u, p[1], p[2])
        \/ tag_create(u)
        \/ \E pk \in RowIds : tag_edit(u, pk)
        \/ \E pk \in RowIds : tag_delete(u, pk)
        \/ dashboard(u)

InitTenantIdle ==
    /\ rel_rows = {}
    /\ event_order = [e \in OwnedEventIds |-> 1]
    /\ tags = {}
    /\ activity = <<>>
    /\ response = NoResponse
    /\ tenant_requests = 0

\* ------------------------------------------------------------------------
\* Specifications
\* ------------------------------------------------------------------------
\* The import with the requests on its book.
Init ==
    /\ InitImport
    /\ InitCall
    /\ InitChunkIdle
    /\ InitSplitIdle
    /\ InitRelIdle
    /\ InitCharPassIdle
    /\ InitScanIdle
    /\ InitDeepIdle
    /\ InitStrengthIdle
    /\ InitSyncIdle
    /\ InitWordsIdle
    /\ InitDatesIdle
    /\ InitTenantIdle

Next == NextImport

Spec == Init /\ [][Next]_vars

\* The thread is scheduled and every LLM call returns or fails.
FairSpec == Spec /\ WF_vars(ImportThread)

\* The import with the requests on its book and book_edit among them.
NextEdit == NextImport \/ book_edit

SpecEdit == Init /\ [][NextEdit]_vars

\* _call_ai_json under every configuration of the keys.
InitSpecRetry ==
    /\ InitImport
    /\ InitRetry
    /\ InitChunkIdle
    /\ InitSplitIdle
    /\ InitRelIdle
    /\ InitCharPassIdle
    /\ InitScanIdle
    /\ InitDeepIdle
    /\ InitStrengthIdle
    /\ InitSyncIdle
    /\ InitWordsIdle
    /\ InitDatesIdle
    /\ InitTenantIdle

SpecRetry == InitSpecRetry /\ [][NextCall]_vars

\* The chunking of every manuscript of the bounds.
InitSpecChunk ==
    /\ InitImport
    /\ InitCall
    /\ InitChunk
    /\ InitSplitIdle
    /\ InitRelIdle
    /\ InitCharPassIdle
    /\ InitScanIdle
    /\ InitDeepIdle
    /\ InitStrengthIdle
    /\ InitSyncIdle
    /\ InitWordsIdle
    /\ InitDatesIdle
    /\ InitTenantIdle

SpecChunk == InitSpecChunk /\ [][ChunkManuscript]_vars

\* The split of every list of shared events of the bounds.
InitSpecSplit ==
    /\ InitImport
    /\ InitCall
    /\ InitChunkIdle
    /\ InitSplit
    /\ InitRelIdle
    /\ InitCharPassIdle
    /\ InitScanIdle
    /\ InitDeepIdle
    /\ InitStrengthIdle
    /\ InitSyncIdle
    /\ InitWordsIdle
    /\ InitDatesIdle
    /\ InitTenantIdle

SpecSplit == InitSpecSplit /\ [][OrderAndSplit]_vars

\* The analyses of one pair of characters with the requests of the user.
InitSpecRel ==
    /\ InitImport
    /\ InitCall
    /\ InitChunkIdle
    /\ InitSplitIdle
    /\ InitRel
    /\ InitCharPassIdle
    /\ InitScanIdle
    /\ InitDeepIdle
    /\ InitStrengthIdle
    /\ InitSyncIdle
    /\ InitWordsIdle
    /\ InitDatesIdle
    /\ InitTenantIdle

SpecRel == InitSpecRel /\ [][NextRel]_vars

\* The character pass over every answer of the AI of the bounds.
InitSpecCharPass ==
    /\ InitImport
    /\ InitCall
    /\ InitChunkIdle
    /\ InitSplitIdle
    /\ InitRelIdle
    /\ InitCharPass
    /\ InitScanIdle
    /\ InitDeepIdle
    /\ InitStrengthIdle
    /\ InitSyncIdle
    /\ InitWordsIdle
    /\ InitDatesIdle
    /\ InitTenantIdle

SpecCharPass == InitSpecCharPass /\ [][NextCharPass]_vars

\* scan_text over every set of characters and every text of the bounds.
InitSpecScan ==
    /\ InitImport
    /\ InitCall
    /\ InitChunkIdle
    /\ InitSplitIdle
    /\ InitRelIdle
    /\ InitCharPassIdle
    /\ InitScan
    /\ InitDeepIdle
    /\ InitStrengthIdle
    /\ InitSyncIdle
    /\ InitWordsIdle
    /\ InitDatesIdle
    /\ InitTenantIdle

SpecScan == InitSpecScan /\ [][scan_text]_vars

\* The deep scan of one book under concurrent trigger requests.
InitSpecDeep ==
    /\ InitImport
    /\ InitCall
    /\ InitChunkIdle
    /\ InitSplitIdle
    /\ InitRelIdle
    /\ InitCharPassIdle
    /\ InitScanIdle
    /\ InitDeep
    /\ InitStrengthIdle
    /\ InitSyncIdle
    /\ InitWordsIdle
    /\ InitDatesIdle
    /\ InitTenantIdle

SpecDeep == InitSpecDeep /\ [][NextDeep]_vars

\* A started thread is scheduled, and each of its LLM calls returns or fails.
FairSpecDeep == SpecDeep /\ \A r \in Triggers : WF_vars(run_deep_scan(r))

\* The writes of strength and trust_level of one relationship.
InitSpecStrength ==
    /\ InitImport
    /\ InitCall
    /\ InitChunkIdle
    /\ InitSplitIdle
    /\ InitRelIdle
    /\ InitCharPassIdle
    /\ InitScanIdle
    /\ InitDeepIdle
    /\ InitStrength
    /\ InitSyncIdle
    /\ InitWordsIdle
    /\ InitDatesIdle
    /\ InitTenantIdle

SpecStrength == InitSpecStrength /\ [][NextStrength]_vars

\* The AI enrichment of one character, from every profile of the user.
InitSpecSync ==
    /\ InitImport
    /\ InitCall
    /\ InitChunkIdle
    /\ InitSplitIdle
    /\ InitRelIdle
    /\ InitCharPassIdle
    /\ InitScanIdle
    /\ InitDeepIdle
    /\ InitStrengthIdle
    /\ InitSync
    /\ InitWordsIdle
    /\ InitDatesIdle
    /\ InitTenantIdle

SpecSync == InitSpecSync /\ [][NextSync]_vars

\* The events of two books from the empty tables.
SpecWords == Init /\ [][NextWords]_vars

\* get_absolute_date on every configuration of the references of the bounds.
InitSpecDates ==
    /\ InitImport
    /\ InitCall
    /\ InitChunkIdle
    /\ InitSplitIdle
    /\ InitRelIdle
    /\ InitCharPassIdle
    /\ InitScanIdle
    /\ InitDeepIdle
    /\ InitStrengthIdle
    /\ InitSyncIdle
    /\ InitWordsIdle
    /\ InitDates
    /\ InitTenantIdle

SpecDates == InitSpecDates /\ [][get_absolute_date]_vars

\* The requests of two users on their rows, from the tables without
\* relationships and tags.
SpecTenant == Init /\ [][NextTenant]_vars

\* ------------------------------------------------------------------------
\* Claims on the import
\* ------------------------------------------------------------------------
\* C1: every run of the import thread ends, and at the step that ends it a
\* book row that exists has status 'drafting' and import_progress 100: after
\* all batches, after skipped batches, without character data and after an
\* exception of the main body.
C1_ImportEndsDrafting ==
    /\ [][(imp.pc # "done" /\ imp'.pc = "done" /\ book'.exists)
            => (book'.status = "drafting" /\ book'.import_progress = 100)]_vars
    /\ [](imp.pc # "idle" => <>(imp.pc = "done"))

C1_Witness ==
    /\ imp.pc = "done"
    /\ imp.failed
    /\ book.exists
    /\ book.status = "drafting"

\* C2: a batch without data or with an exception is counted as skipped and the
\* loop goes on: the thread never removes a chapter or an event, and when the
\* loop is left every batch has been attempted.
C2_SkipAndContinue ==
    /\ [](imp.skipped_batches = Cardinality(imp.no_data))
    /\ [](imp.pc \in {"finish", "done"} /\ ~imp.failed
            => imp.attempted = BatchStarts(imp.total_chunks))
    /\ [][ImportThread => \A k \in ChapterKeys :
                            chapters'[k] >= chapters[k] /\ events'[k] >= events[k]]_vars

C2_Witness ==
    /\ imp.pc = "done"
    /\ imp.no_data = {0}
    /\ imp.attempted = {0, 2}
    /\ imp.new_chapters > 0

\* C8: no two chapters of a book share a chapter_number, whatever the
\* interleaving of the import with chapter_create and chapter_bulk_upload; a
\* chapter of the answer whose number is taken is not created, nor are its
\* events, and the import goes on with the next chapter.
C8_UniqueChapterNumbers ==
    /\ [](\A k \in ChapterKeys : chapters[k] <= 1)
    /\ [][(/\ imp.pc = "chapter"
           /\ imp.idx <= Len(imp.ai_chapters)
           /\ imp'.idx = imp.idx + 1
           /\ NumberTaken(imp.ai_chapters[imp.idx], imp.new_chapters))
            => (chapters' = chapters /\ events' = events /\ imp'.pc = "chapter")]_vars

C8_Witness ==
    /\ imp.collisions > 0
    /\ imp.new_chapters > 0
    /\ requests > 0

Failed(answer) == answer # "json"

\* C3: at most max_retries provider calls; the first successful attempt is the
\* last one and its JSON is returned; None is returned once max_retries
\* attempts have failed, and without any call when no key is set.
C3_RetryThenNone ==
    /\ Len(call.answers) <= call.max_retries
    /\ \A k \in 1..(Len(call.answers) - 1) : Failed(call.answers[k])
    /\ (~keys.deepseek /\ ~keys.gemini) => call.answers = <<>>
    /\ call.pc = "returned" =>
         /\ call.result \in {"json", "None"}
         /\ call.result = "json" <=>
              (call.answers # <<>> /\ call.answers[Len(call.answers)] = "json")
         /\ (call.result = "None" /\ (keys.deepseek \/ keys.gemini)) =>
              (/\ Len(call.answers) = call.max_retries
               /\ \A k \in 1..Len(call.answers) : Failed(call.answers[k]))
         /\ (~keys.deepseek /\ ~keys.gemini) => call.result = "None"

C3_Witness ==
    /\ call.pc = "returned"
    /\ call.max_retries = default_max_retries
    /\ Len(call.answers) = 2
    /\ call.result = "json"

\* C21: with the default max_retries of 3, a call whose three attempts have
\* all failed has waited 1, 2 and 4 seconds, one wait after each failed
\* attempt, before it gives up.
C21_BackoffOneTwoFour ==
    (/\ call.pc = "returned"
     /\ call.max_retries = default_max_retries
     /\ Len(call.answers) = default_max_retries
     /\ call.result = "None")
        => call.sleeps = <<1, 2, 4>>

\* a call with the default max_retries has given up after three failures
C21_Witness ==
    /\ call.pc = "returned"
    /\ call.max_retries = default_max_retries
    /\ call.result = "None"
    /\ Len(call.answers) = default_max_retries
    /\ \A k \in 1..default_max_retries : Failed(call.answers[k])
    /\ Len(call.sleeps) = 2

\* ------------------------------------------------------------------------
\* Claims on the chunking
\* ------------------------------------------------------------------------
LongSegments(m) ==
    {i \in 1..Len(m.segments) : m.segments[i].raw - m.segments[i].blank > 100}

\* C10: the split at the chapter headings is used when it gives at least two
\* chunks of more than 100 characters; otherwise the chunks are the
\* consecutive slices of at most 12000 characters, which tile the whole text:
\* there is at least one, the first starts at 0, each starts where the one
\* before ends, and the last ends at the end of the text.
C10_ChunkingCoversText ==
    chunking.pc = "chunked" =>
        /\ chunking.mode = "regex" <=> Cardinality(LongSegments(manuscript)) >= 2
        /\ chunking.mode = "fallback" =>
             LET c == chunking.chunks
             IN /\ Len(c) >= 1
                /\ c[1].start = 0
                /\ c[Len(c)].end = ContentLength(manuscript)
                /\ \A k \in 1..(Len(c) - 1) : c[k + 1].start = c[k].end
                /\ \A k \in 1..Len(c) :
                     /\ c[k].length = c[k].end - c[k].start
                     /\ c[k].length >= 1
                     /\ c[k].length <= 12000

C10_Witness ==
    /\ chunking.pc = "chunked"
    /\ chunking.mode = "fallback"
    /\ Len(chunking.chunks) >= 2
    /\ Cardinality(LongSegments(manuscript)) = 1

\* ------------------------------------------------------------------------
\* Claims on the split of the shared events
\* ------------------------------------------------------------------------
Flatten(seqs) ==
    LET RECURSIVE F(_)
        F(k) == IF k = 0 THEN <<>> ELSE F(k - 1) \o seqs[k]
    IN F(Len(seqs))

\* C4: when two characters share at least one event, the shared events,
\* ordered by (chronological_order, sequence_order), are split into three
\* contiguous batches that together hold every shared event exactly once.
C4_ThreeBatchesPartition ==
    split.pc = "split" =>
        /\ Len(split.batches) = 3
        /\ Flatten(split.batches) = split.all_events
        /\ Ordered(shared, split.all_events)
        /\ \A e \in DOMAIN shared :
               Cardinality({i \in DOMAIN split.all_events : split.all_events[i] = e}) = 1

\* Four shared events were split: into two batches of two.
C4_Witness ==
    /\ split.pc = "split"
    /\ Len(shared) = 4
    /\ Len(split.batches) = 2
    /\ Flatten(split.batches) = split.all_events

\* ------------------------------------------------------------------------
\* Claims on the relationship analysis
\* ------------------------------------------------------------------------
\* The step of run r that ends _perform_relationship_analysis with an answer.
Synthesized(r) ==
    /\ runs[r].pc = "synth"
    /\ runs'[r].pc = "done"
    /\ runs'[r].ai_response # None
    /\ analysisCache' # analysisCache \/ analysed' = runs[r].inputs

AiValues(rel, ai) ==
    /\ rel.relationship_type = (IF "type" \in DOMAIN ai THEN ai.type ELSE "neutral")
    /\ rel.strength = (IF "strength" \in DOMAIN ai THEN ai.strength ELSE 5)

C6_HitOnlyIfUnchanged ==
    \A r \in Runs :
        runs[r].pc = "done" /\ runs[r].hit =>
            /\ runs[r].calls = <<>>
            /\ r = "request" => runs[r].reply.cached
            /\ runs[r].inputs = analysed

\* A request was answered from the cache.
C6_Witness ==
    /\ runs["request"].pc = "done"
    /\ runs["request"].reply.cached
    /\ runs["request"].calls = <<>>
    /\ analysisCache # <<>>

\* The step of run r on the batch idx of its loop.
BatchStep(r) == runs[r].pc = "batch" /\ runs'[r] # runs[r]

CreateStep(r) == runs[r].pc = "create" /\ runs'[r] # runs[r]

RowsOf(table, idx) ==
    {k \in DOMAIN table : /\ table[k].character_a = "a"
                          /\ table[k].character_b = "b"
                          /\ table[k].batch_index = idx}

C26_FailedSummaryNotReused ==
    /\ [](\A k \in DOMAIN summaryCache : summaryCache[k].summary_text # failed_summary)
    /\ [][\A r \in Runs :
            (/\ BatchStep(r)
             /\ runs'[r].calls = runs[r].calls
             /\ Len(runs'[r].summaries) > Len(runs[r].summaries))
               => runs'[r].summaries[Len(runs'[r].summaries)] # failed_summary]_vars

\* a run has taken the text of a failed summarization from the cache as the
\* summary of its first batch, without a call for that batch
C26_Witness ==
    \E r \in Runs :
        /\ Len(runs[r].summaries) > 0
        /\ runs[r].summaries[1] = failed_summary
        /\ \A k \in 1..Len(runs[r].calls) : runs[r].calls[k].batch_index # 0

\* ------------------------------------------------------------------------
\* Claims on the character pass
\* ------------------------------------------------------------------------
\* The lower-cased name, nickname and aliases of a Character row.
NamesOf(row) ==
    {Lower(Strip(row.name)), Lower(Strip(row.nickname))}
        \cup {Lower(Strip(a)) : a \in Range(SplitComma(row.aliases))}

\* The lower-cased name and aliases of a character of the AI.
AiNamesOf(char_info) ==
    {Lower(Strip(char_info.name))}
        \cup {Lower(Strip(a)) : a \in Range(char_info.aliases)}

Matches(char_info, row) == (AiNamesOf(char_info) \cap NamesOf(row)) \ {<<>>} # {}

\* C9: a character of the AI whose name or alias equals, without regard to
\* case, the name, the nickname or an alias of a character the user has or
\* the pass has created is merged and creates no row; without a match one
\* row is created; the pass never creates two characters with the same
\* lower-cased name.
C9_MergeOnMatch ==
    /\ [](\A j \in charPass.created : \A k \in charPass.created :
              Lower(characters[j].name) = Lower(characters[k].name) => j = k)
    /\ [][charPass.pc = "loop" /\ charPass'.pc = "loop" =>
            LET char_info == charPass.char_data[charPass.idx]
            IN char_info.name # <<>> =>
                 IF \E k \in DOMAIN characters : Matches(char_info, characters[k])
                 THEN Len(characters') = Len(characters)
                 ELSE Len(characters') = Len(characters) + 1]_vars

\* The pass merged an alias into a character of the user and then created a
\* character with that alias as its name.
C9_Witness ==
    /\ charPass.pc = "done"
    /\ Len(characters) = 2
    /\ characters[1].name = <<"Sam">>
    /\ characters[1].aliases = <<"mum">>
    /\ characters[2].name = <<"Mum">>
    /\ charPass.created = {2}

\* ------------------------------------------------------------------------
\* Claims on scan_text
\* ------------------------------------------------------------------------
\* the keys under which a character can be found
ScanKeysOf(row) ==
    {Lower(row.name)}
    \cup (IF Len(SplitWhitespace(row.name)) > 1 THEN {Lower(SplitWhitespace(row.name)[1])} ELSE {})
    \cup {Lower(Strip(SplitComma(row.aliases)[k])) : k \in DOMAIN SplitComma(row.aliases)}
    \cup {Lower(row.nickname)}

\* C11: scan_text returns every matching object at most once and nothing
\* for the empty text; a text that contains the primary name of a character
\* as a whole word, in any case, yields that character; a character is
\* yielded only when one of its names occurs as a whole word.
C11_ScanFindsNames ==
    scan.pc = "done" =>
        /\ scan.text = <<>> => scan.result = <<>>
        /\ \A i, j \in DOMAIN scan.result : i # j => scan.result[i] # scan.result[j]
        /\ \A k \in DOMAIN scan.rows :
               SearchWord(Lower(scan.rows[k].name), Lower(scan.text))
                   => CharacterObject(scan.rows[k]) \in Range(scan.result)
        /\ \A k \in DOMAIN scan.rows :
               CharacterObject(scan.rows[k]) \in Range(scan.result)
                   => \E key \in ScanKeysOf(scan.rows[k]) \ {<<>>} :
                          SearchWord(key, Lower(scan.text))

\* two characters, the text holds the primary name of one of them as a
\* whole word, and the scan has returned
C11_Witness ==
    /\ scan.pc = "done"
    /\ Len(scan.rows) = 2
    /\ \E k \in DOMAIN scan.rows : SearchWord(Lower(scan.rows[k].name), Lower(scan.text))
    /\ scan.result # <<>>

\* ------------------------------------------------------------------------
\* Claims on book_import and book_edit
\* ------------------------------------------------------------------------
\* C12: an upload whose extraction succeeds starts exactly one import
\* thread and replies while the thread is still at its start; an upload
\* whose extraction yields no content deletes the book it created, starts
\* no thread and replies with an error, and the books of the user are then
\* the books the user had before the upload.
C12_UploadStartsOneThreadOrCleansUp ==
    /\ [](upload.threads = IF upload.pc = "started" THEN 1 ELSE 0)
    /\ [][/\ (upload.pc = "created" /\ upload'.pc = "started")
                => /\ imp.pc = "idle"
                   /\ imp'.pc = "start"
                   /\ upload'.reply = "success"
          /\ (upload.pc = "created" /\ upload'.pc = "failed")
                => /\ imp' = imp
                   /\ imp.pc = "idle"
                   /\ upload'.reply = "error"
                   /\ BooksOfUser' = upload.before
                   /\ \A n \in ChapNums : chapters'[<<"imported", n>>] = 0]_vars

\* an upload has failed after a chapter was added to the book it had created
C12_Witness ==
    /\ upload.pc = "failed"
    /\ upload.reply = "error"
    /\ requests > 0
    /\ BooksOfUser = upload.before

\* C16: a change of the title that book_edit has committed while the import
\* thread ran is still in the row when the thread has finished.
C16_EditSurvivesImport ==
    (imp.pc = "done" /\ upload.edited /\ book.exists) => book.title = "edited"

\* the thread has finished after book_edit had committed during its run
C16_Witness ==
    /\ imp.pc = "done"
    /\ ~imp.failed
    /\ upload.edited
    /\ book.exists

\* ------------------------------------------------------------------------
\* Claims on the deep scan
\* ------------------------------------------------------------------------
\* C13: a trigger request that finds the status row 'running' and updated
\* less than 300 seconds ago answers 'A scan is already in progress.' and
\* changes nothing: no thread, no reset of the row, no cleared cache.
C13_RunningScanRefusesTrigger ==
    [][\A r \in Triggers :
         (/\ triggers[r].pc = "idle"
          /\ triggers'[r] # triggers[r]
          /\ scan_status.exists
          /\ scan_status.status = "running"
          /\ scan_status.fresh)
            => /\ triggers'[r].pc = "done"
               /\ triggers'[r].reply = "in_progress"
               /\ UNCHANGED <<scan_status, scans, book_caches>>]_vars

\* a request was refused while the thread of another was running and the
\* caches it had built are still there
C13_Witness ==
    \E r, q \in Triggers :
        /\ triggers[r].reply = "in_progress"
        /\ Active(q)
        /\ scan_status.status = "running"
        /\ book_caches

\* C15: at most one deep-scan thread of the book is active at any time.
C15_OneScanThread ==
    Cardinality({r \in Triggers : Active(r)}) <= 1

\* a thread is active
C15_Witness ==
    \E r \in Triggers : Active(r) /\ scans[r].pc = "relationships"

\* the row says how the scan ended
Ended(row) ==
    \/ row.status = "completed" /\ row.progress_percentage = 100
    \/ row.status = "failed" /\ row.error_message = exception_text

\* C22: every started deep-scan thread ends, and the step that ends it
\* leaves the status row of the book 'completed' with progress 100 or
\* 'failed' with the text of the exception, never 'running'; a thread that
\* an exception has ended leaves the row 'failed', not 'completed'.
C22_ScanEndsCompletedOrFailed ==
    /\ \A r \in Triggers : Active(r) ~> Over(r)
    /\ [][\A r \in Triggers :
            (Active(r) /\ scans'[r].pc \in {"done", "handled"})
               => /\ Ended(scan_status')
                  /\ (scans'[r].pc = "handled") => scan_status'.status = "failed"]_vars

\* a thread has ended by an exception and has left the row 'failed', and
\* another has ended and has left it 'completed'
C22_Witness ==
    \E r, q \in Triggers :
        /\ scans[r].pc = "handled"
        /\ scans[q].pc = "done"
        /\ scan_status.status = "completed"
        /\ scan_status.progress_percentage = 100

\* ------------------------------------------------------------------------
\* Claims on api_manage_relationship and the relationship rows
\* ------------------------------------------------------------------------
\* C14: after api_manage_relationship has saved or deleted the relationship
\* of a pair, no RelationshipAnalysisCache row of the pair remains.
C14_ManageClearsAnalysisCache ==
    [][(relationships' # relationships /\ runs' = runs)
          => AnalysisRows(analysisCache') = {}]_vars

\* the pair has an analysis in the cache and a relationship the user saved
C14_Witness ==
    /\ AnalysisRows(analysisCache) # {}
    /\ \E rel \in RelRows(relationships) : rel.relationship_type = "enemy"

\* C17: every CharacterRelationship row has strength and trust_level in
\* 1..10, whatever numbers the forms, the JSON body or the AI supply.
C17_StrengthInRange ==
    \A rel \in pair : Validated(rel.strength) /\ Validated(rel.trust_level)

\* api_manage_relationship has written the row of the pair
C17_Witness ==
    /\ pairRequests > 0
    /\ \E rel \in pair : rel.relationship_type = "enemy"

\* ------------------------------------------------------------------------
\* Claims on the AI enrichment of a character
\* ------------------------------------------------------------------------
\* C18: the enrichment writes only empty fields: a field that was not empty
\* keeps its value; api_sync_character_data reports in updated_fields
\* exactly the fields it has filled, in the order of the tests, and with no
\* field to fill it reports the empty list and does not save.
C18_OnlyEmptyFieldsFilled ==
    [][/\ \A field \in Range(SparseFields) :
              profile[field] # "" => profile'[field] = profile[field]
       /\ sync'.reply = "success"
              => /\ Range(sync'.updated_fields)
                        = {field \in Range(SparseFields) : profile'[field] # profile[field]}
                 /\ \A i, j \in DOMAIN sync'.updated_fields :
                        i # j => sync'.updated_fields[i] # sync'.updated_fields[j]
                 /\ sync'.saved = (sync'.updated_fields # <<>>)
       /\ (sync'.reply = "success" /\ \A field \in Range(SparseFields) : profile[field] # "")
              => /\ sync'.updated_fields = <<>>
                 /\ ~sync'.saved
                 /\ profile' = profile]_vars

\* a sync has filled the goals of a character whose description the user
\* had written
C18_Witness ==
    /\ sync.reply = "success"
    /\ sync.updated_fields = <<"goals">>
    /\ profile.description = "user"
    /\ profile.goals = "ai"
    /\ profile.traits = ""

\* ------------------------------------------------------------------------
\* Claims on the word count of a book
\* ------------------------------------------------------------------------
\* C19: after every event create, edit and delete the current_word_count of
\* every book is the sum of the word_count of the events of the book.
C19_WordCountIsSum ==
    \A b \in WordBooks : current_word_count[b] = SumWordCount(word_events, b)

\* a book has counted words and an event request has followed
C19_Witness ==
    /\ event_requests >= 2
    /\ \E b \in WordBooks : current_word_count[b] > 0

\* ------------------------------------------------------------------------
\* Claims on get_absolute_date
\* ------------------------------------------------------------------------
\* C20: get_absolute_date ends for every configuration of the references,
\* chains and cycles included, and what it gives back is a date or None and
\* never an exception; an event that is relative to itself gives None.
C20_ResolvesOrNone ==
    resolve.pc = "done"
        => /\ ~resolve.raised
           /\ (/\ dated[resolve.event].date_type = "relative"
               /\ dated[resolve.event].relative_to_event = resolve.event)
                  => resolve.value = None

\* the method has resolved an event through a chain of two references
C20_Witness ==
    /\ resolve.pc = "done"
    /\ resolve.value = [day |-> 12]

\* ------------------------------------------------------------------------
\* Claims on the rows of two users and on the activity log
\* ------------------------------------------------------------------------
\* what the pages and the forms of the user show of the data: the rows, the
\* log, and the pairs the relationship form would accept
ObservableOf(v) ==
    [relationships |-> {r \in rel_rows : r.user = v},
     events |-> [e \in {e \in OwnedEventIds : EventUser(e) = v} |-> event_order[e]],
     tags |-> {t \in tags : t.user = v},
     activity |-> ActivityOf(v),
     form |-> {p \in PairInputs : RelationshipFormValid(v, p[1], p[2], 0)}]

\* C24: the answer to a request shows only rows of the requesting user, and
\* a request of one user changes nothing of what another user observes: the
\* rows of the other, their log, and what their forms accept.
C24_OnlyOwnObjects ==
    /\ [](\A o \in response.objects : o.user = response.user)
    /\ [][\A v \in Users : (response'.user # v) => ObservableOf(v)' = ObservableOf(v)]_vars

\* U has saved a relationship with the ids of the two characters of V
C24_Witness ==
    \E r \in rel_rows :
        /\ r.user = "U"
        /\ CharacterUser(r.character_a) = "V"
        /\ CharacterUser(r.character_b) = "V"
        /\ response.user = "U"
        /\ response.status = "success"

\* C25: both characters of every relationship belong to the user of the
\* relationship.
C25_RelationshipOfOwnCharacters ==
    \A r \in rel_rows :
        /\ r.user = CharacterUser(r.character_a)
        /\ r.user = CharacterUser(r.character_b)

\* relationships were saved by the form, by api_manage_relationship and by
\* the analysis
C25_Witness ==
    /\ Cardinality(rel_rows) = 3
    /\ \E r \in rel_rows : r.user # CharacterUser(r.character_b)

\* the entries the step has appended to the log
Appended == {activity'[k] : k \in (Len(activity) + 1)..Len(activity')}

Logged(user, action, model_name) ==
    \E entry \in Appended :
        entry.user = user /\ entry.action = action /\ entry.model_name = model_name

\* C27: every step that creates, updates or deletes a relationship, a tag or
\* an event appends an entry of the log for the user of the row, with the
\* action and the name of the model.
C27_EveryWriteLogged ==
    [][/\ \A r \in rel_rows' :
            /\ (\A q \in rel_rows : q.id # r.id) => Logged(r.user, "create", "CharacterRelationship")
            /\ (\E q \in rel_rows : q.id = r.id /\ q # r)
                  => Logged(r.user, "update", "CharacterRelationship")
       /\ \A q \in rel_rows :
            (\A r \in rel_rows' : r.id # q.id) => Logged(q.user, "delete", "CharacterRelationship")
       /\ \A t \in tags' \ tags : Logged(t.user, "create", "Tag")
       /\ \A t \in tags \ tags' : Logged(t.user, "delete", "Tag")
       /\ \A e \in OwnedEventIds :
            event_order'[e] # event_order[e] => Logged(EventUser(e), "update", "Event")]_vars

\* a relationship was created and deleted again, and the log has no entry
\* of a deletion
C27_Witness ==
    /\ tenant_requests > 2
    /\ rel_rows = {}
    /\ \E k \in 1..Len(activity) :
          activity[k].action = "create" /\ activity[k].model_name = "CharacterRelationship"
    /\ \A k \in 1..Len(activity) : activity[k].action # "delete"

====
